---- MODULE Spec2Model ----
(***************************************************************************)
(* The polling application as a state machine over its datastore.          *)
(*                                                                         *)
(* The state is the content of the tables polls, poll_options and votes    *)
(* (supabase schema), the datastore clock, and one record per request in   *)
(* flight.  A request runs one of the server actions of lib/actions/polls  *)
(* (or the route handler with the same steps); every await of a datastore  *)
(* call is one atomic step, so that requests interleave exactly at the     *)
(* places where the code yields.  A datastore call either fails with an    *)
(* error object (the `error` field of the supabase result) or is           *)
(* evaluated against the tables under the row-level policies and the       *)
(* constraints of the schema.                                              *)
(*                                                                         *)
(* Nullable and optional values are sequences of length at most one:       *)
(* <<>> is null / undefined, <<v>> is the value v.                         *)
(***************************************************************************)
EXTENDS Integers, Sequences, FiniteSets, TLC

\* ------------------------------------------------------------- bounds
\* Requests issued in one behaviour.
MaxReqs == 2
\* The datastore clock runs from 0 to MaxTime.
MaxTime == 2
\* Longest list of option ids in a vote payload.
MaxOptionIds == 2
\* Option fields of the create form that hold text at the same time.
MaxFilled == 2

\* ------------------------------------------------------------- values
None == << >>
Some(v) == << v >>

Procs == {1, 2}
Users == {"u1", "u2"}
\* auth.getUser(): an authenticated identity or none
Callers == {Some(u) : u \in Users} \cup {None}

Range(s) == {s[i] : i \in 1..Len(s)}

\* ------------------------------------------------------------- state
VARIABLES
    polls,          \* rows of public.polls
    poll_options,   \* rows of public.poll_options
    votes,          \* rows of public.votes
    poll_shares,    \* rows of public.poll_shares
    nextPollId,     \* ids handed out to polls rows so far
    nextOptionId,   \* ids handed out to poll_options rows so far (uuid_generate_v4: always fresh)
    nextVoteId,     \* ids handed out to votes rows so far
    now,            \* NOW() / new Date()
    issued,         \* requests started so far
    req             \* per request slot: the request in flight, its locals and its result

vars == <<polls, poll_options, votes, poll_shares, nextPollId, nextOptionId, nextVoteId,
          now, issued, req>>
db == <<polls, poll_options, votes, poll_shares, nextPollId, nextOptionId, nextVoteId>>

\* ------------------------------------------------------------- text
\* String.prototype.trim over a text given as a sequence of characters
RECURSIVE TrimLeft(_)
TrimLeft(s) == IF s # << >> /\ Head(s) = " " THEN TrimLeft(Tail(s)) ELSE s

RECURSIVE TrimRight(_)
TrimRight(s) ==
    IF s # << >> /\ s[Len(s)] = " " THEN TrimRight(SubSeq(s, 1, Len(s) - 1)) ELSE s

trim(s) == TrimRight(TrimLeft(s))

\* ------------------------------------------------------------- row-level policies
\* auth.uid() = created_by
IsOwner(uid, poll) == uid = Some(poll.created_by)

\* a polls table every caller can read all of: not the policy of the schema, kept
\* for comparison
PollsSelectAnyone(uid, poll) == TRUE

\* "Anyone can view public polls"
PollsSelectPolicy(uid, poll) == poll.is_public \/ IsOwner(uid, poll)

\* "Anyone can view poll options for public polls" / "Users can manage options ..."
PollOptionsSelectPolicy(uid, poll_id) ==
    \E p \in polls : p.id = poll_id /\ (p.is_public \/ IsOwner(uid, p))

\* "Anyone can view votes for public polls"
VotesSelectPolicy(uid, poll_id) ==
    \E p \in polls : p.id = poll_id /\ (p.is_public \/ IsOwner(uid, p))

\* "Anyone can vote on public polls"
VotesInsertPublicPolicy(poll_id, t) ==
    \E p \in polls :
        /\ p.id = poll_id
        /\ p.is_public
        /\ p.status = "active"
        /\ (IF p.expires_at = None THEN TRUE ELSE p.expires_at[1] > t)

\* "Users can vote on their own polls"
VotesInsertOwnerPolicy(uid, poll_id) ==
    \E p \in polls : p.id = poll_id /\ IsOwner(uid, p)

VotesInsertPolicy(uid, row, t) ==
    VotesInsertPublicPolicy(row.poll_id, t) \/ VotesInsertOwnerPolicy(uid, row.poll_id)

\* ------------------------------------------------------------- constraints of public.votes
\* poll_id REFERENCES polls, option_id REFERENCES poll_options, voter_id REFERENCES profiles
\* the constraints without option_id REFERENCES poll_options: not the schema's,
\* kept for comparison
VotesForeignKeysPollOnly(row) ==
    /\ \E p \in polls : p.id = row.poll_id
    /\ (IF row.voter_id = None THEN TRUE ELSE row.voter_id[1] \in Users)

VotesForeignKeys(row) ==
    /\ \E p \in polls : p.id = row.poll_id
    /\ \E o \in poll_options : o.id = row.option_id
    /\ (IF row.voter_id = None THEN TRUE ELSE row.voter_id[1] \in Users)

\* a constraint over (poll_id, voter_id, voter_email) only, one row per identity and
\* poll: not the constraint of the schema, kept for comparison
VotesUniquePerPoll(a, b) ==
    /\ a.poll_id = b.poll_id
    /\ a.voter_id # None /\ a.voter_id = b.voter_id
    /\ a.voter_email # None /\ a.voter_email = b.voter_email

\* UNIQUE(poll_id, option_id, voter_id, voter_email): two rows conflict when all four
\* columns are equal and none of them is NULL (NULLs are distinct in a unique index)
VotesUniqueConflict(a, b) ==
    /\ a.poll_id = b.poll_id
    /\ a.option_id = b.option_id
    /\ a.voter_id # None /\ a.voter_id = b.voter_id
    /\ a.voter_email # None /\ a.voter_email = b.voter_email

\* ------------------------------------------------------------- datastore queries
\* from('polls').select(...).eq('id', id).single(): the visible rows with that id
SelectPoll(uid, id) == {p \in polls : p.id = id /\ PollsSelectPolicy(uid, p)}

\* from('poll_options').select('id').eq('poll_id', poll_id).in('id', ids)
SelectOptions(uid, poll_id, ids) ==
    {o \in poll_options :
        o.poll_id = poll_id /\ o.id \in Range(ids) /\ PollOptionsSelectPolicy(uid, poll_id)}

\* from('votes').select('id').eq('poll_id', poll_id).eq('voter_id', user.id)
SelectVotes(uid, poll_id) ==
    {v \in votes : v.poll_id = poll_id /\ v.voter_id = uid /\ VotesSelectPolicy(uid, poll_id)}

\* from('votes').insert(rows): all rows or none
VotesInsertAccepted(uid, rows, t) ==
    /\ \A i \in 1..Len(rows) :
        /\ VotesInsertPolicy(uid, rows[i], t)
        /\ VotesForeignKeys(rows[i])
        /\ \A v \in votes : ~VotesUniqueConflict(rows[i], v)
    /\ \A i, j \in 1..Len(rows) : i < j => ~VotesUniqueConflict(rows[i], rows[j])

\* ------------------------------------------------------------- writes to polls and poll_options
\* "Users can update their own polls" / "Users can delete their own polls"
PollsWritePolicy(uid, poll) == IsOwner(uid, poll)

\* "Users can manage options for their own polls" (FOR ALL)
PollOptionsManagePolicy(uid, poll_id) ==
    \E p \in polls : p.id = poll_id /\ IsOwner(uid, p)

\* a field of the update payload: an undefined one is left out of the request
\* and the column keeps its value
SetIfDefined(old, new) == IF new = None THEN old ELSE new

\* formData.x ?? dflt
Coalesce(x, dflt) == IF x = None THEN dflt ELSE x[1]

\* an update that also writes the status column: not the code's, kept for
\* comparison
UpdatedPollWithStatus(poll, form) ==
    [poll EXCEPT !.title = form.title,
                 !.status = "inactive",
                 !.is_public = Coalesce(form.is_public, TRUE),
                 !.allow_multiple_votes = Coalesce(form.allow_multiple_votes, FALSE)]

\* from('polls').update({...}).eq('id', id): the scalar columns of the rows the
\* caller may update
UpdatedPoll(poll, form) ==
    [poll EXCEPT !.title = form.title,
                 !.description = SetIfDefined(@, form.description),
                 !.is_public = Coalesce(form.is_public, TRUE),
                 !.allow_multiple_votes = Coalesce(form.allow_multiple_votes, FALSE),
                 !.expires_at = SetIfDefined(@, form.expires_at)]

PollsAfterUpdate(uid, id, form) ==
    {IF p.id = id /\ PollsWritePolicy(uid, p) THEN UpdatedPoll(p, form) ELSE p : p \in polls}

\* from('poll_options').delete().eq('poll_id', poll_id): the rows that go
OptionsToDelete(uid, poll_id) ==
    {o \in poll_options : o.poll_id = poll_id /\ PollOptionsManagePolicy(uid, o.poll_id)}

\* the votes when the delete of option rows does not cascade: not what the schema
\* declares, kept for comparison
VotesKeptAfterOptionsDelete(deleted) == votes

\* votes.option_id ... ON DELETE CASCADE
VotesAfterOptionsDelete(deleted) ==
    {v \in votes : v.option_id \notin {o.id : o \in deleted}}

\* option rows numbered from 0 and not trimmed: not what the code does, kept for
\* comparison
OptionsDataFromZero(poll_id, texts) ==
    [i \in 1..Len(texts) |-> [poll_id |-> poll_id, text |-> texts[i], order_index |-> i - 1]]

\* optionsData: one row per text, trimmed, order_index from 1 in input order
OptionsData(poll_id, texts) ==
    [i \in 1..Len(texts) |-> [poll_id |-> poll_id, text |-> trim(texts[i]), order_index |-> i]]

\* from('poll_options').insert(optionsData): policy and poll_id REFERENCES polls
OptionsInsertAccepted(uid, rows) ==
    \A i \in 1..Len(rows) : PollOptionsManagePolicy(uid, rows[i].poll_id)

StoredOptions(rows, firstId, t) ==
    {[ id |-> firstId + i - 1, poll_id |-> rows[i].poll_id, text |-> rows[i].text,
       order_index |-> rows[i].order_index, created_at |-> t ] : i \in 1..Len(rows)}

\* from('polls').delete().eq('id', id): the rows that go, and the cascades
\* poll_options.poll_id, votes.poll_id, votes.option_id ... ON DELETE CASCADE
PollsToDelete(uid, id) == {p \in polls : p.id = id /\ PollsWritePolicy(uid, p)}

OptionsAfterPollDelete(deleted) ==
    {o \in poll_options : o.poll_id \notin {p.id : p \in deleted}}

VotesAfterPollDelete(deleted) ==
    {v \in votes :
        /\ v.poll_id \notin {p.id : p \in deleted}
        /\ v.option_id \in {o.id : o \in OptionsAfterPollDelete(deleted)}}

\* the share codes when the delete of a poll does not cascade to them: not what
\* the schema declares, kept for comparison
SharesKeptAfterPollDelete(deleted) == poll_shares

\* poll_shares.poll_id ... ON DELETE CASCADE
SharesAfterPollDelete(deleted) ==
    {x \in poll_shares : x.poll_id \notin {p.id : p \in deleted}}

\* ------------------------------------------------------------- submitVote, pure parts
\* poll.expires_at && new Date(poll.expires_at) < new Date()
IsExpired(poll, t) == IF poll.expires_at = None THEN FALSE ELSE poll.expires_at[1] < t

\* a weaker membership check, refusing only a list none of whose ids is an
\* option of the poll: not the check of the code, kept for comparison
OptionsInvalidNoneFound(error, options, option_ids) ==
    error \/ options = {}

\* optionsError || options.length !== voteData.option_ids.length
OptionsInvalid(error, options, option_ids) ==
    error \/ Cardinality(options) # Len(option_ids)

\* the existing-votes check: voteCheckError is only logged
AlreadyVoted(error, existingVotes, poll) ==
    /\ ~error
    /\ Cardinality(existingVotes) > 0
    /\ ~poll.allow_multiple_votes

\* an optional string passed on as it came: not what the code does, kept for
\* comparison
OrNullKeep(x) == x

\* x || null for an optional string
OrNull(x) == IF x = None \/ x = Some("") THEN None ELSE x

\* votesToInsert: one row per requested option id
VotesToInsert(r) ==
    [i \in 1..Len(r.option_ids) |->
        [ poll_id     |-> r.poll_id,
          option_id   |-> r.option_ids[i],
          voter_id    |-> r.caller,
          voter_email |-> OrNull(r.voter_email),
          voter_name  |-> OrNull(r.voter_name) ]]

\* the rows as stored: each with a fresh id
StoredVotes(rows, firstId) ==
    {[ id          |-> firstId + i - 1,
       poll_id     |-> rows[i].poll_id,
       option_id   |-> rows[i].option_id,
       voter_id    |-> rows[i].voter_id,
       voter_email |-> rows[i].voter_email,
       voter_name  |-> rows[i].voter_name ] : i \in 1..Len(rows)}

\* ------------------------------------------------------------- requests
NoResult == [success |-> FALSE, error |-> ""]
NoForm == [title |-> "", description |-> None, is_public |-> None,
           allow_multiple_votes |-> None, expires_at |-> None, options |-> << >>]

\* calls: the datastore calls the request has issued, in order; failed: those of
\* them that came back with an error; pre: the tables when the request started
IdleReq ==
    [ op |-> "none", pc |-> "idle", via |-> "action", caller |-> None, poll_id |-> 0,
      option_ids |-> << >>, voter_name |-> None, voter_email |-> None, form |-> NoForm,
      poll |-> None, result |-> NoResult, calls |-> << >>, failed |-> {},
      created |-> None, data |-> None, credentials |-> None, redirects |-> << >>,
      ui |-> None, path |-> << >>,
      pre |-> [polls |-> {}, poll_options |-> {}, votes |-> {}, poll_shares |-> {}] ]

Snapshot ==
    [polls |-> polls, poll_options |-> poll_options, votes |-> votes, poll_shares |-> poll_shares]

\* no request is in flight and no result is waiting to be returned
Quiescent == \A q \in Procs : req[q].pc = "idle"

CanStart(p) == req[p].pc = "idle" /\ issued < MaxReqs

Called(r, call, error) ==
    [r EXCEPT !.calls = Append(@, call),
              !.failed = IF error THEN @ \cup {call} ELSE @]

\* the catch block / the error response: { success: false, error: message }
Fail(r, message) ==
    [r EXCEPT !.pc = "done", !.result = [success |-> FALSE, error |-> message]]

\* { success: true }
Succeed(r) == [r EXCEPT !.pc = "done", !.result = [success |-> TRUE, error |-> ""]]

Goto(r, pc) == [r EXCEPT !.pc = pc]

\* the caller has the response; the slot is free for the next request
Return(p) ==
    /\ req[p].pc = "done"
    /\ req' = [req EXCEPT ![p] = IdleReq]
    /\ UNCHANGED <<db, now, issued>>

\* ------------------------------------------------------------- inputs
PollIds == {p.id : p \in polls}

\* an id of no row
NoSuchId == 0

\* the non-decreasing id lists of length 1..n over S
RECURSIVE IdLists(_, _)
IdLists(S, n) ==
    IF n = 0 THEN {}
    ELSE LET shorter == IdLists(S, n - 1)
         IN  {<<x>> : x \in S} \cup
             UNION {{Append(s, x) : x \in {y \in S : s[Len(s)] <= y}} : s \in shorter}

\* option_ids of a vote payload: no id at all, one id of no row, or up to
\* MaxOptionIds ids of existing option rows of any poll, repetitions included (the
\* order of the ids in the payload plays no role in any check)
OptionIdLists ==
    {<< >>, <<NoSuchId>>} \cup IdLists({o.id : o \in poll_options}, MaxOptionIds)

\* optional voter name and email of a vote payload
VoterInfos ==
    { [voter_name |-> None,      voter_email |-> None],
      [voter_name |-> Some(""),  voter_email |-> Some("")],
      [voter_name |-> Some("n"), voter_email |-> Some("e")] }

VoteInputs ==
    [caller : Callers, poll_id : PollIds, option_ids : OptionIdLists, voter : VoterInfos]

\* the payloads of the interleaved runs: one option of the poll, with or without
\* voter data
NarrowVoteInputs ==
    { [caller |-> c, poll_id |-> o.poll_id, option_ids |-> <<o.id>>, voter |-> vi] :
        c \in Callers, o \in poll_options,
        vi \in {x \in VoterInfos : x.voter_name # Some("")} }

\* ------------------------------------------------------------- submitVote
StartSubmitVote(p, inputs) ==
    /\ CanStart(p)
    /\ \E in \in inputs :
        req' = [req EXCEPT ![p] =
                  [IdleReq EXCEPT !.op = "submitVote", !.pc = "sv_poll",
                                  !.caller = in.caller,
                                  !.poll_id = in.poll_id, !.option_ids = in.option_ids,
                                  !.voter_name = in.voter.voter_name,
                                  !.voter_email = in.voter.voter_email,
                                  !.pre = Snapshot]]
    /\ issued' = issued + 1
    /\ UNCHANGED <<db, now>>

\* the poll fetch with the expiry check put before the status check: not the
\* order of the code, kept for comparison
SubmitVotePollExpiryFirst(r, error, t) ==
    LET rows == SelectPoll(r.caller, r.poll_id)
        c    == Called(r, "polls.select", error)
    IN  IF error \/ rows = {} THEN Fail(c, "Poll not found")
        ELSE LET poll == CHOOSE x \in rows : TRUE
             IN  IF IsExpired(poll, t) THEN Fail(c, "Poll has expired")
                 ELSE IF poll.status # "active" THEN Fail(c, "Poll is not active")
                 ELSE [Goto(c, "sv_options") EXCEPT !.poll = Some(poll)]

\* the poll fetch and the status and expiry checks that follow it
SubmitVotePoll(r, error, t) ==
    LET rows == SelectPoll(r.caller, r.poll_id)
        c    == Called(r, "polls.select", error)
    IN  IF error \/ rows = {} THEN Fail(c, "Poll not found")
        ELSE LET poll == CHOOSE x \in rows : TRUE
             IN  IF poll.status # "active" THEN Fail(c, "Poll is not active")
                 ELSE IF IsExpired(poll, t) THEN Fail(c, "Poll has expired")
                 ELSE [Goto(c, "sv_options") EXCEPT !.poll = Some(poll)]

SubmitVoteFetchPoll(p) ==
    /\ req[p].pc = "sv_poll"
    /\ \E error \in BOOLEAN :
        req' = [req EXCEPT ![p] = SubmitVotePoll(req[p], error, now)]
    /\ UNCHANGED <<db, now, issued>>

\* the option-membership check
SubmitVoteOptions(r, error) ==
    LET c == Called(r, "poll_options.select", error)
    IN  IF OptionsInvalid(error, SelectOptions(r.caller, r.poll_id, r.option_ids),
                          r.option_ids)
            THEN Fail(c, "Invalid options selected")
        ELSE Goto(c, IF r.caller # None THEN "sv_existing" ELSE "sv_insert")

SubmitVoteCheckOptions(p) ==
    /\ req[p].pc = "sv_options"
    /\ \E error \in BOOLEAN :
        req' = [req EXCEPT ![p] = SubmitVoteOptions(req[p], error)]
    /\ UNCHANGED <<db, now, issued>>

\* the existing-votes check of an authenticated caller
SubmitVoteExisting(r, error) ==
    LET c == Called(r, "votes.select", error)
    IN  IF AlreadyVoted(error, SelectVotes(r.caller, r.poll_id), r.poll[1])
            THEN Fail(c, "You have already voted on this poll")
        ELSE Goto(c, "sv_insert")

SubmitVoteCheckExisting(p) ==
    /\ req[p].pc = "sv_existing"
    /\ \E error \in BOOLEAN :
        req' = [req EXCEPT ![p] = SubmitVoteExisting(req[p], error)]
    /\ UNCHANGED <<db, now, issued>>

\* the batch insert of the vote rows: rejected by the datastore (a policy, a
\* constraint) or failing on its own, or stored whole
SubmitVoteInsert(p) ==
    /\ req[p].pc = "sv_insert"
    /\ LET rows == VotesToInsert(req[p])
       IN  \E error \in BOOLEAN :
             IF ~error /\ VotesInsertAccepted(req[p].caller, rows, now)
             THEN /\ votes' = votes \cup StoredVotes(rows, nextVoteId)
                  /\ nextVoteId' = nextVoteId + Len(rows)
                  /\ req' = [req EXCEPT ![p] = Succeed(Called(@, "votes.insert", FALSE))]
             ELSE /\ votes' = votes
                  /\ nextVoteId' = nextVoteId
                  /\ req' = [req EXCEPT ![p] =
                               Fail(Called(@, "votes.insert", TRUE), "Failed to submit vote")]
    /\ UNCHANGED <<polls, poll_options, poll_shares, nextPollId, nextOptionId, now, issued>>

\* ------------------------------------------------------------- updatePoll, deletePoll
\* the server action, or the route handler of /api/polls/[id]
Vias == {"action", "route"}

\* update payloads: one that leaves the flags out and resubmits the seed texts of
\* poll 1 with blanks around them, one that sets every field
PollForms ==
    { [ title |-> "T1", description |-> None, is_public |-> None,
        allow_multiple_votes |-> None, expires_at |-> None,
        options |-> << <<" ", "A">>, <<"B", " ">> >> ],
      [ title |-> "T2", description |-> Some("d"), is_public |-> Some(FALSE),
        allow_multiple_votes |-> Some(TRUE), expires_at |-> Some(1),
        options |-> << <<"C">> >> ] }

UpdateInputs == [caller : Callers, poll_id : PollIds, form : PollForms]
DeleteInputs == [caller : Callers, poll_id : PollIds]

\* the check of the session left out: not what the code does, kept for comparison
NotLoggedInSkipped(r, message) == r

\* authError || !user
NotLoggedIn(r, message) == IF r.caller = None THEN Fail(r, message) ELSE r

StartUpdatePollWith(p, inputs) ==
    /\ CanStart(p)
    /\ \E in \in inputs :
        req' = [req EXCEPT ![p] =
                  NotLoggedIn([IdleReq EXCEPT !.op = "updatePoll", !.pc = "up_check",
                                              !.caller = in.caller, !.poll_id = in.poll_id,
                                              !.form = in.form, !.pre = Snapshot],
                              "You must be logged in to update a poll")]
    /\ issued' = issued + 1
    /\ UNCHANGED <<db, now>>

StartUpdatePoll(p) == StartUpdatePollWith(p, UpdateInputs)

StartDeletePollWith(p, inputs) ==
    /\ CanStart(p)
    /\ \E in \in inputs :
        req' = [req EXCEPT ![p] =
                  NotLoggedIn([IdleReq EXCEPT !.op = "deletePoll", !.pc = "del_check",
                                              !.caller = in.caller, !.poll_id = in.poll_id,
                                              !.pre = Snapshot],
                              "You must be logged in to delete a poll")]
    /\ issued' = issued + 1
    /\ UNCHANGED <<db, now>>

StartDeletePoll(p) == StartDeletePollWith(p, DeleteInputs)

\* the lookup without the comparison of created_by with the caller: not what the
\* code does, kept for comparison
OwnershipCheckLookupOnly(r, via, error, next, notOwner) ==
    LET rows == SelectPoll(r.caller, r.poll_id)
        c    == [Called(r, "polls.select", error) EXCEPT !.via = via]
    IN  IF error THEN Fail(c, IF via = "route" THEN "Failed to check poll" ELSE "Poll not found")
        ELSE IF rows = {} THEN Fail(c, "Poll not found")
        ELSE Goto(c, next)

\* the ownership check of updatePoll and deletePoll: select created_by of the
\* poll (.single() in the action, .maybeSingle() in the route), then compare
OwnershipCheck(r, via, error, next, notOwner) ==
    LET rows == SelectPoll(r.caller, r.poll_id)
        c    == [Called(r, "polls.select", error) EXCEPT !.via = via]
    IN  IF error THEN Fail(c, IF via = "route" THEN "Failed to check poll" ELSE "Poll not found")
        ELSE IF rows = {} THEN Fail(c, "Poll not found")
        ELSE IF (CHOOSE x \in rows : TRUE).created_by # r.caller[1] THEN Fail(c, notOwner)
        ELSE Goto(c, next)

UpdatePollCheck(p) ==
    /\ req[p].pc = "up_check"
    /\ \E via \in Vias, error \in BOOLEAN :
        req' = [req EXCEPT ![p] = OwnershipCheck(@, via, error, "up_update",
                                                 "You can only update your own polls")]
    /\ UNCHANGED <<db, now, issued>>

\* the update of the scalar columns
UpdatePollScalars(p) ==
    /\ req[p].pc = "up_update"
    /\ \E error \in BOOLEAN :
        IF error
        THEN /\ polls' = polls
             /\ req' = [req EXCEPT ![p] =
                          Fail(Called(@, "polls.update", TRUE), "Failed to update poll")]
        ELSE /\ polls' = PollsAfterUpdate(req[p].caller, req[p].poll_id, req[p].form)
             /\ req' = [req EXCEPT ![p] = Goto(Called(@, "polls.update", FALSE), "up_delete")]
    /\ UNCHANGED <<poll_options, votes, poll_shares, nextPollId, nextOptionId, nextVoteId,
                   now, issued>>

\* the delete of the existing options
UpdatePollDeleteOptions(p) ==
    /\ req[p].pc = "up_delete"
    /\ \E error \in BOOLEAN :
        IF error
        THEN /\ UNCHANGED <<poll_options, votes>>
             /\ req' = [req EXCEPT ![p] = Fail(Called(@, "poll_options.delete", TRUE),
                                               "Failed to delete existing options")]
        ELSE LET gone == OptionsToDelete(req[p].caller, req[p].poll_id)
             IN  /\ poll_options' = poll_options \ gone
                 /\ votes' = VotesAfterOptionsDelete(gone)
                 /\ req' = [req EXCEPT ![p] =
                              Goto(Called(@, "poll_options.delete", FALSE), "up_insert")]
    /\ UNCHANGED <<polls, poll_shares, nextPollId, nextOptionId, nextVoteId, now, issued>>

\* the insert of the new options
UpdatePollInsertOptions(p) ==
    /\ req[p].pc = "up_insert"
    /\ LET rows == OptionsData(req[p].poll_id, req[p].form.options)
       IN  \E error \in BOOLEAN :
             IF ~error /\ OptionsInsertAccepted(req[p].caller, rows)
             THEN /\ poll_options' = poll_options \cup StoredOptions(rows, nextOptionId, now)
                  /\ nextOptionId' = nextOptionId + Len(rows)
                  /\ req' = [req EXCEPT ![p] = Succeed(Called(@, "poll_options.insert", FALSE))]
             ELSE /\ UNCHANGED <<poll_options, nextOptionId>>
                  /\ req' = [req EXCEPT ![p] = Fail(Called(@, "poll_options.insert", TRUE),
                                                    "Failed to create poll options")]
    /\ UNCHANGED <<polls, votes, poll_shares, nextPollId, nextVoteId, now, issued>>

DeletePollCheck(p) ==
    /\ req[p].pc = "del_check"
    /\ \E via \in Vias, error \in BOOLEAN :
        req' = [req EXCEPT ![p] = OwnershipCheck(@, via, error, "del_options",
                                                 "You can only delete your own polls")]
    /\ UNCHANGED <<db, now, issued>>

\* a delete of the options whose error is only logged, the poll delete following
\* in any case: not what the code does, kept for comparison
DeletePollOptionsErrorLogged(p) ==
    /\ req[p].pc = "del_options"
    /\ \E error \in BOOLEAN :
        LET gone == IF error THEN {} ELSE OptionsToDelete(req[p].caller, req[p].poll_id)
        IN  /\ poll_options' = poll_options \ gone
            /\ votes' = VotesAfterOptionsDelete(gone)
            /\ req' = [req EXCEPT ![p] =
                         Goto(Called(@, "poll_options.delete", error), "del_poll")]
    /\ UNCHANGED <<polls, poll_shares, nextPollId, nextOptionId, nextVoteId, now, issued>>

\* the delete of the poll's options, before the poll itself
DeletePollOptions(p) ==
    /\ req[p].pc = "del_options"
    /\ \E error \in BOOLEAN :
        IF error
        THEN /\ UNCHANGED <<poll_options, votes>>
             /\ req' = [req EXCEPT ![p] = Fail(Called(@, "poll_options.delete", TRUE),
                                               "Failed to delete poll options")]
        ELSE LET gone == OptionsToDelete(req[p].caller, req[p].poll_id)
             IN  /\ poll_options' = poll_options \ gone
                 /\ votes' = VotesAfterOptionsDelete(gone)
                 /\ req' = [req EXCEPT ![p] =
                              Goto(Called(@, "poll_options.delete", FALSE), "del_poll")]
    /\ UNCHANGED <<polls, poll_shares, nextPollId, nextOptionId, nextVoteId, now, issued>>

\* the delete of the poll row
DeletePollRow(p) ==
    /\ req[p].pc = "del_poll"
    /\ \E error \in BOOLEAN :
        IF error
        THEN /\ UNCHANGED <<polls, poll_options, votes, poll_shares>>
             /\ req' = [req EXCEPT ![p] =
                          Fail(Called(@, "polls.delete", TRUE), "Failed to delete poll")]
        ELSE LET gone == PollsToDelete(req[p].caller, req[p].poll_id)
             IN  /\ polls' = polls \ gone
                 /\ poll_options' = OptionsAfterPollDelete(gone)
                 /\ votes' = VotesAfterPollDelete(gone)
                 /\ poll_shares' = SharesAfterPollDelete(gone)
                 /\ req' = [req EXCEPT ![p] = Succeed(Called(@, "polls.delete", FALSE))]
    /\ UNCHANGED <<nextPollId, nextOptionId, nextVoteId, now, issued>>

\* ------------------------------------------------------------- createPoll
\* an authenticated user without a row in public.profiles
NoProfileUser == "u3"

CreateCallers == Callers \cup {Some(NoProfileUser)}

\* from('profiles').select('id').eq('id', user.id).single(): the caller's own row
SelectProfile(uid) == {u \in Users : uid = Some(u)}

\* policy "Users can create polls" and created_by REFERENCES profiles
PollsInsertAccepted(uid, row) == uid = Some(row.created_by) /\ row.created_by \in Users

\* the row of from('polls').insert({...}): status takes its default
NewPoll(id, form, profile) ==
    [ id |-> id, title |-> form.title, description |-> form.description,
      status |-> "active",
      is_public |-> Coalesce(form.is_public, TRUE),
      allow_multiple_votes |-> Coalesce(form.allow_multiple_votes, FALSE),
      expires_at |-> form.expires_at, created_by |-> profile ]

CreateInputs == [caller : CreateCallers, form : PollForms]

StartCreatePoll(p, inputs) ==
    /\ CanStart(p)
    /\ \E in \in inputs :
        req' = [req EXCEPT ![p] =
                  NotLoggedIn([IdleReq EXCEPT !.op = "createPoll", !.pc = "cr_profile",
                                              !.caller = in.caller, !.form = in.form,
                                              !.pre = Snapshot],
                              "You must be logged in to create a poll")]
    /\ issued' = issued + 1
    /\ UNCHANGED <<db, now>>

\* the profile lookup
CreatePollProfile(p) ==
    /\ req[p].pc = "cr_profile"
    /\ \E error \in BOOLEAN :
        LET c == Called(req[p], "profiles.select", error)
        IN  req' = [req EXCEPT ![p] =
                      IF error \/ SelectProfile(req[p].caller) = {}
                          THEN Fail(c, "User profile not found. Please try logging out and back in.")
                      ELSE Goto(c, "cr_poll")]
    /\ UNCHANGED <<db, now, issued>>

\* the insert of the poll row
CreatePollInsert(p) ==
    /\ req[p].pc = "cr_poll"
    /\ LET row == NewPoll(nextPollId, req[p].form, req[p].caller[1])
       IN  \E error \in BOOLEAN :
             IF ~error /\ PollsInsertAccepted(req[p].caller, row)
             THEN /\ polls' = polls \cup {row}
                  /\ nextPollId' = nextPollId + 1
                  /\ req' = [req EXCEPT ![p] =
                               [Goto(Called(@, "polls.insert", FALSE), "cr_options")
                                   EXCEPT !.created = Some(row.id), !.poll_id = row.id]]
             ELSE /\ UNCHANGED <<polls, nextPollId>>
                  /\ req' = [req EXCEPT ![p] =
                               Fail(Called(@, "polls.insert", TRUE), "Failed to create poll")]
    /\ UNCHANGED <<poll_options, votes, poll_shares, nextOptionId, nextVoteId, now, issued>>

\* the insert of the option rows; when it fails the compensating delete is next
CreatePollInsertOptions(p) ==
    /\ req[p].pc = "cr_options"
    /\ LET rows == OptionsData(req[p].poll_id, req[p].form.options)
       IN  \E error \in BOOLEAN :
             IF ~error /\ OptionsInsertAccepted(req[p].caller, rows)
             THEN /\ poll_options' = poll_options \cup StoredOptions(rows, nextOptionId, now)
                  /\ nextOptionId' = nextOptionId + Len(rows)
                  /\ req' = [req EXCEPT ![p] = Succeed(Called(@, "poll_options.insert", FALSE))]
             ELSE /\ UNCHANGED <<poll_options, nextOptionId>>
                  /\ req' = [req EXCEPT ![p] =
                               Goto(Called(@, "poll_options.insert", TRUE), "cr_cleanup")]
    /\ UNCHANGED <<polls, votes, poll_shares, nextPollId, nextVoteId, now, issued>>

\* await supabase.from('polls').delete().eq('id', poll.id): its outcome is not
\* looked at; then the error of the option insert is reported
CreatePollCleanup(p) ==
    /\ req[p].pc = "cr_cleanup"
    /\ \E error \in BOOLEAN :
        LET gone == IF error THEN {} ELSE PollsToDelete(req[p].caller, req[p].poll_id)
        IN  /\ polls' = polls \ gone
            /\ poll_options' = OptionsAfterPollDelete(gone)
            /\ votes' = VotesAfterPollDelete(gone)
            /\ poll_shares' = SharesAfterPollDelete(gone)
            /\ req' = [req EXCEPT ![p] =
                         Fail(Called(@, "polls.delete", error), "Failed to create poll options")]
    /\ UNCHANGED <<nextPollId, nextOptionId, nextVoteId, now, issued>>

\* ------------------------------------------------------------- get_poll_results
\* the percentage cut off after two places: not what ROUND does, kept for comparison
TruncatedPercentage(count, total) == (10000 * count) \div total

\* ROUND(count::NUMERIC / total::NUMERIC * 100, 2), in hundredths of a percent
\* (6667 is 66.67): the nearest hundredth, a half rounded away from zero
RoundedPercentage(count, total) == (20000 * count + total) \div (2 * total)

\* the rows of a table that the caller's SELECT policy shows
VisibleOptions(uid) == {o \in poll_options : PollOptionsSelectPolicy(uid, o.poll_id)}
VisibleVotes(uid) == {v \in votes : VotesSelectPolicy(uid, v.poll_id)}

\* a result row that counts the votes of the whole poll for every option: not what
\* the function does, kept for comparison
ResultRowOfPollVotes(uid, poll_uuid, po) ==
    LET total == Cardinality({v \in VisibleVotes(uid) : v.poll_id = poll_uuid})
    IN  [ option_id |-> po.id, option_text |-> po.text, vote_count |-> total,
          percentage |-> IF total > 0 THEN 10000 ELSE 0 ]

\* one result row: COUNT(v.id) over the LEFT JOIN on po.id = v.option_id, and the
\* CASE over (SELECT COUNT(*) FROM votes WHERE poll_id = poll_uuid)
ResultRow(uid, poll_uuid, po) ==
    LET vote_count == Cardinality({v \in VisibleVotes(uid) : v.option_id = po.id})
        total      == Cardinality({v \in VisibleVotes(uid) : v.poll_id = poll_uuid})
    IN  [ option_id |-> po.id, option_text |-> po.text, vote_count |-> vote_count,
          percentage |-> IF total > 0 THEN RoundedPercentage(vote_count, total) ELSE 0 ]

\* an order by order_index alone: not the ORDER BY of the function, kept for
\* comparison
OrderedByIndexOnly(a, b) == a.order_index <= b.order_index

\* ORDER BY po.order_index, po.created_at
OrderedBefore(a, b) ==
    \/ a.order_index < b.order_index
    \/ a.order_index = b.order_index /\ a.created_at <= b.created_at

\* the orders in which the rows can come: every arrangement that respects the
\* ORDER BY (rows equal in both keys come in any order)
Orderings(rows) ==
    {s \in [1..Cardinality(rows) -> rows] :
        /\ \A i, j \in 1..Cardinality(rows) : i < j => s[i] # s[j] /\ OrderedBefore(s[i], s[j])}

\* get_poll_results(poll_uuid), run with the rights of the caller
get_poll_results(uid, poll_uuid) ==
    {[i \in 1..Len(s) |-> ResultRow(uid, poll_uuid, s[i])] :
        s \in Orderings({o \in VisibleOptions(uid) : o.poll_id = poll_uuid})}

\* ------------------------------------------------------------- getPollResults, getPollById
ReadInputs == [caller : Callers, poll_id : PollIds]

\* getPollResults(pollId): the rpc and the result made of it
GetPollResults(p) ==
    /\ req[p].pc = "idle"
    /\ \E in \in ReadInputs, error \in BOOLEAN :
        LET c == Called([IdleReq EXCEPT !.op = "getPollResults", !.caller = in.caller,
                                        !.poll_id = in.poll_id, !.pre = Snapshot],
                        "get_poll_results", error)
        IN  IF error
            THEN req' = [req EXCEPT ![p] = Fail(c, "Failed to fetch poll results")]
            ELSE \E data \in get_poll_results(in.caller, in.poll_id) :
                    req' = [req EXCEPT ![p] = [Succeed(c) EXCEPT !.data = Some(data)]]
    /\ UNCHANGED <<db, now, issued>>

\* from('polls').select('*, poll_options(id, text, order_index)').eq('id', id).single()
PollWithOptions(uid, poll) ==
    [ poll |-> poll,
      poll_options |-> {[id |-> o.id, text |-> o.text, order_index |-> o.order_index] :
                           o \in {x \in VisibleOptions(uid) : x.poll_id = poll.id}} ]

\* getPollById(pollId): .single() comes back with an error when no row is shown
GetPollById(p) ==
    /\ req[p].pc = "idle"
    /\ \E in \in ReadInputs, error \in BOOLEAN :
        LET rows == SelectPoll(in.caller, in.poll_id)
            c    == Called([IdleReq EXCEPT !.op = "getPollById", !.caller = in.caller,
                                           !.poll_id = in.poll_id, !.pre = Snapshot],
                           "polls.select", error)
        IN  req' = [req EXCEPT ![p] =
                      IF error \/ rows = {} THEN Fail(c, "Failed to fetch poll")
                      ELSE [Succeed(c) EXCEPT
                              !.data = Some(PollWithOptions(in.caller, CHOOSE x \in rows : TRUE))]]
    /\ UNCHANGED <<db, now, issued>>

\* ------------------------------------------------------------- auth actions
\* formData.get('email'), formData.get('password'), formData.get('name'): the
\* field or null
AuthForms ==
    [ email : {None, Some("a@x")}, password : {None, Some("pw")}, name : {None, Some("n")} ]

\* redirect(url) of next/navigation: records the redirect and throws, so control
\* leaves the action
redirect(r, url) == [r EXCEPT !.redirects = Append(@, url), !.pc = "done"]

\* control has left the function
Left(r) == r.pc = "done"

\* a login that goes to the dashboard whatever sign-in returned: not the code's,
\* kept for comparison
loginToDashboard(r, error) == redirect(r, "/dashboard")

\* login, after signInWithPassword returned { error }
login(r, error) ==
    LET a == IF error THEN redirect(r, "/login?message=Could not authenticate user") ELSE r
    IN  IF Left(a) THEN a ELSE redirect(a, "/dashboard")

\* signup, after signUp returned { error }
signup(r, error) ==
    LET a == IF error THEN redirect(r, "/register?message=Could not authenticate user") ELSE r
    IN  IF Left(a) THEN a
        ELSE redirect(a, "/login?message=Check email to continue sign in process")

\* logout, after signOut resolved: its result is not looked at
logout(r, error) == redirect(r, "/login")

AuthOps == {"login", "signup", "logout"}

\* the call of the auth provider an action makes
AuthCallOf(op) ==
    IF op = "login" THEN "auth.signInWithPassword"
    ELSE IF op = "signup" THEN "auth.signUp"
    ELSE "auth.signOut"

\* the form is submitted: createClient, the fields are read
StartAuth(p) ==
    /\ CanStart(p)
    /\ \E op \in AuthOps, f \in AuthForms :
        /\ op = "logout" => f = [email |-> None, password |-> None, name |-> None]
        /\ op = "login" => f.name = None
        /\ req' = [req EXCEPT ![p] =
                     [IdleReq EXCEPT !.op = op, !.pc = "au_call", !.credentials = Some(f),
                                     !.pre = Snapshot]]
    /\ issued' = issued + 1
    /\ UNCHANGED <<db, now>>

\* the auth provider answers with an error or without
AuthCall(p) ==
    /\ req[p].pc = "au_call"
    /\ \E error \in BOOLEAN :
        LET c == Called(req[p], AuthCallOf(req[p].op), error)
        IN  req' = [req EXCEPT ![p] =
                      IF c.op = "login" THEN login(c, error)
                      ELSE IF c.op = "signup" THEN signup(c, error)
                      ELSE logout(c, error)]
    /\ UNCHANGED <<db, now, issued>>

\* ------------------------------------------------------------- updateSession
\* request.nextUrl.pathname, character by character
LoginPath == <<"/", "l", "o", "g", "i", "n">>
RegisterPath == <<"/", "r", "e", "g", "i", "s", "t", "e", "r">>

Paths ==
    { <<"/">>, LoginPath, RegisterPath, LoginPath \o <<"/", "x">>, LoginPath \o <<"x">>,
      RegisterPath \o <<"?">>, <<"/", "l", "o", "g">>, <<"/", "d">>, <<"/", "p">> \o LoginPath }

\* a test for the path being the prefix itself: not startsWith, kept for
\* comparison
IsPath(s, prefix) == s = prefix

\* String.prototype.startsWith
RECURSIVE startsWith(_, _)
startsWith(s, prefix) ==
    IF prefix = << >> THEN TRUE
    ELSE IF s = << >> THEN FALSE
    ELSE Head(s) = Head(prefix) /\ startsWith(Tail(s), Tail(prefix))

\* NextResponse.next({ request }) with the cookies setAll put on it, if any
NextResponse(cookies) == [kind |-> "next", pathname |-> << >>, cookies |-> cookies]

\* NextResponse.redirect(url) with url.pathname = '/login'
RedirectResponse(pathname) == [kind |-> "redirect", pathname |-> pathname, cookies |-> "none"]

\* the response of updateSession for a request with this path, the user getUser
\* found and the response setAll left in supabaseResponse
SessionResponse(path, user, supabaseResponse) ==
    IF user = None /\ ~startsWith(path, LoginPath) /\ ~startsWith(path, RegisterPath)
    THEN RedirectResponse(LoginPath)
    ELSE supabaseResponse

\* the middleware runs on a request: getUser finds a user or none and may
\* refresh the session, which calls setAll
updateSession(p) ==
    /\ CanStart(p)
    /\ \E path \in Paths, user \in Callers, refreshed \in BOOLEAN :
        LET supabaseResponse == NextResponse(IF refreshed THEN "refreshed" ELSE "none")
            r == Called([IdleReq EXCEPT !.op = "updateSession", !.caller = user,
                                        !.path = path, !.pre = Snapshot,
                                        !.poll = Some(supabaseResponse)],
                        "auth.getUser", FALSE)
        IN  req' = [req EXCEPT ![p] =
                      [r EXCEPT !.pc = "done",
                                !.data = Some(SessionResponse(path, user, supabaseResponse))]]
    /\ issued' = issued + 1
    /\ UNCHANGED <<db, now>>

\* ------------------------------------------------------------- CreatePollForm
\* formData.options.length < 10
MaxOptions == 10
\* formData.options.length > 2
MinOptions == 2

\* what a user types into a text field
FormTexts == { << >>, <<" ">>, <<"A">>, <<"A", " ">>, <<"B">> }

\* useState: the state of a form that was just mounted
InitialForm ==
    [ title |-> << >>, options |-> << << >>, << >> >>, isLoading |-> FALSE,
      error |-> "", isSuccess |-> FALSE ]

\* the component is mounted in slot p and no submission of it is under way
Mounted(p) == req[p].op = "CreatePollForm" /\ req[p].pc = "form"

FormOf(p) == req[p].ui[1]

SetForm(p, f) == req' = [req EXCEPT ![p].ui = Some(f)]

Filled(options) == Cardinality({i \in 1..Len(options) : options[i] # << >>})

\* prev.options.filter((_, i) => i !== index), index counted from 1
WithoutIndex(options, index) ==
    [i \in 1..(Len(options) - 1) |-> IF i < index THEN options[i] ELSE options[i + 1]]

\* an option list that takes one more entry whatever its length: not the code's,
\* kept for comparison
AddedOptionAlways(options) == Append(options, << >>)

\* addOption: the list with one more empty entry, or as it was at 10 entries
AddedOption(options) ==
    IF Len(options) < MaxOptions THEN Append(options, << >>) ELSE options

\* removeOption(index)
RemovedOption(options, index) ==
    IF Len(options) > MinOptions THEN WithoutIndex(options, index) ELSE options

\* updateOption(index, value)
UpdatedOption(options, index, value) == [options EXCEPT ![index] = value]

\* the first check of handleSubmit that fails, "" when all pass
ValidationError(f) ==
    IF trim(f.title) = << >> THEN "Poll title is required"
    ELSE IF \E i \in 1..Len(f.options) : trim(f.options[i]) = << >>
        THEN "All options must be filled"
    ELSE IF Cardinality({trim(f.options[i]) : i \in 1..Len(f.options)}) # Len(f.options)
        THEN "Options must be unique"
    ELSE ""

\* the page with the form is opened, in the first free slot
MountCreatePollForm(p) ==
    /\ Quiescent
    /\ p = 1
    /\ req' = [req EXCEPT ![p] =
                 [IdleReq EXCEPT !.op = "CreatePollForm", !.pc = "form",
                                 !.ui = Some(InitialForm)]]
    /\ UNCHANGED <<db, now, issued>>

addOption(p) ==
    /\ Mounted(p)
    /\ SetForm(p, [FormOf(p) EXCEPT !.options = AddedOption(@)])
    /\ UNCHANGED <<db, now, issued>>

removeOption(p) ==
    /\ Mounted(p)
    /\ \E index \in 1..Len(FormOf(p).options) :
        SetForm(p, [FormOf(p) EXCEPT !.options = RemovedOption(@, index)])
    /\ UNCHANGED <<db, now, issued>>

updateOption(p) ==
    /\ Mounted(p)
    /\ \E index \in 1..Len(FormOf(p).options), value \in FormTexts :
        /\ Filled(UpdatedOption(FormOf(p).options, index, value)) <= MaxFilled
        /\ SetForm(p, [FormOf(p) EXCEPT !.options = UpdatedOption(@, index, value)])
    /\ UNCHANGED <<db, now, issued>>

\* onChange of the title field
updateTitle(p) ==
    /\ Mounted(p)
    /\ \E value \in {<< >>, <<" ">>, <<"T">>} :
        SetForm(p, [FormOf(p) EXCEPT !.title = value])
    /\ UNCHANGED <<db, now, issued>>

\* handleSubmit up to its await: the checks, then fetch('/api/polls', POST); the
\* submit button is disabled while isLoading or isSuccess
handleSubmit(p) ==
    /\ req[p].op = "CreatePollForm" /\ req[p].pc = "form"
    /\ ~FormOf(p).isLoading /\ ~FormOf(p).isSuccess
    /\ LET f == FormOf(p)
           e == ValidationError(f)
       IN  IF e # ""
              THEN SetForm(p, [f EXCEPT !.error = e, !.isLoading = FALSE])
              ELSE req' = [req EXCEPT ![p] =
                             [@ EXCEPT !.pc = "form_fetch",
                                       !.ui = Some([f EXCEPT !.error = "", !.isLoading = TRUE])]]
    /\ UNCHANGED <<db, now, issued>>

\* the rest of handleSubmit: the response is ok, is an error with or without a
\* message, or fetch threw
FormResponse(p) ==
    /\ req[p].op = "CreatePollForm" /\ req[p].pc = "form_fetch"
    /\ \E outcome \in {"ok", "error", "no message", "throws"} :
        LET f == [FormOf(p) EXCEPT !.isLoading = FALSE]
        IN  req' = [req EXCEPT ![p] =
                      IF outcome = "ok"
                          THEN [@ EXCEPT !.pc = "done", !.ui = Some([f EXCEPT !.isSuccess = TRUE])]
                      ELSE [@ EXCEPT !.pc = "form",
                                     !.ui = Some([f EXCEPT !.error =
                                                IF outcome = "error" THEN "Failed to create poll"
                                                ELSE "Failed to create poll. Please try again."])]]
    /\ UNCHANGED <<db, now, issued>>

\* ------------------------------------------------------------- thrown errors
\* what an awaited call can throw instead of returning { data, error }: an Error
\* with its message (a failed fetch), or a value that is not an Error
Thrown ==
    { [isError |-> TRUE,  message |-> "fetch failed"],
      [isError |-> FALSE, message |-> ""] }

\* the message of the catch block when the thrown value is not an Error
DefaultMessage(op) ==
    IF op = "createPoll" THEN "Failed to create poll"
    ELSE IF op = "updatePoll" THEN "Failed to update poll"
    ELSE IF op = "deletePoll" THEN "Failed to delete poll"
    ELSE IF op = "getPollById" THEN "Failed to fetch poll"
    ELSE IF op = "getPollResults" THEN "Failed to fetch poll results"
    ELSE "Failed to submit vote"

\* the message passed on whatever was thrown: not what the catch blocks do, kept
\* for comparison
CaughtMessageOfAny(op, x) == x.message

\* error instanceof Error ? error.message : '<default>'
CaughtMessage(op, x) == IF x.isError THEN x.message ELSE DefaultMessage(op)

\* the datastore call a request in flight is about to issue
NextCall(pc) ==
    IF pc \in {"sv_poll", "up_check", "del_check"} THEN "polls.select"
    ELSE IF pc = "sv_options" THEN "poll_options.select"
    ELSE IF pc = "sv_existing" THEN "votes.select"
    ELSE IF pc = "sv_insert" THEN "votes.insert"
    ELSE IF pc = "up_update" THEN "polls.update"
    ELSE IF pc \in {"up_delete", "del_options"} THEN "poll_options.delete"
    ELSE IF pc \in {"up_insert", "cr_options"} THEN "poll_options.insert"
    ELSE IF pc \in {"del_poll", "cr_cleanup"} THEN "polls.delete"
    ELSE IF pc = "cr_profile" THEN "profiles.select"
    ELSE "polls.insert"

\* the call a request in flight is waiting for throws before it reaches the
\* datastore: control passes to the catch block of the function
Throw(p) ==
    /\ req[p].pc \notin {"idle", "done"}
    /\ \E x \in Thrown :
        req' = [req EXCEPT ![p] =
                  Fail(Called(@, NextCall(@.pc), TRUE), CaughtMessage(@.op, x))]
    /\ UNCHANGED <<db, now, issued>>

\* getPollById when its one call throws
GetPollByIdThrows(p) ==
    /\ req[p].pc = "idle"
    /\ \E in \in ReadInputs, x \in Thrown :
        req' = [req EXCEPT ![p] =
                  Fail(Called([IdleReq EXCEPT !.op = "getPollById", !.caller = in.caller,
                                              !.poll_id = in.poll_id, !.pre = Snapshot],
                              "polls.select", TRUE),
                       CaughtMessage("getPollById", x))]
    /\ UNCHANGED <<db, now, issued>>

\* ------------------------------------------------------------- clock
\* The clock is read only against expires_at (the expiry check of submitVote, the
\* insert policy of votes): it is advanced while some poll has an expiry instant.
Tick ==
    /\ now < MaxTime
    /\ \E p \in polls : p.expires_at # None
    /\ now' = now + 1
    /\ UNCHANGED <<db, issued, req>>

\* ------------------------------------------------------------- initial state
\* two users with a poll each: poll 1 of u1 is public and has two options,
\* poll 2 of u2 is private and has one option; nobody has voted yet
SeedPoll(st, mv, ex) ==
    [ id |-> 1, title |-> "T0", description |-> None, status |-> st, is_public |-> TRUE,
      allow_multiple_votes |-> mv, expires_at |-> ex, created_by |-> "u1" ]

\* poll 1: single-vote or multi-vote, open-ended or expiring at 1, and one that is
\* inactive as well
SeedPoll1 ==
    { SeedPoll("active", FALSE, None), SeedPoll("active", TRUE, None),
      SeedPoll("active", FALSE, Some(1)), SeedPoll("inactive", FALSE, Some(1)) }

SeedPoll2 ==
    [ id |-> 2, title |-> "T0", description |-> None, status |-> "active", is_public |-> FALSE,
      allow_multiple_votes |-> FALSE, expires_at |-> None, created_by |-> "u2" ]

SeedOptions ==
    { [id |-> 1, poll_id |-> 1, text |-> <<"A">>, order_index |-> 1, created_at |-> 0],
      [id |-> 2, poll_id |-> 1, text |-> <<"B">>, order_index |-> 2, created_at |-> 0],
      [id |-> 3, poll_id |-> 2, text |-> <<"C">>, order_index |-> 1, created_at |-> 0] }

\* a share code for each poll, made by its owner
SeedShares ==
    { [id |-> 1, poll_id |-> 1, share_code |-> "poll_1", created_by |-> "u1"],
      [id |-> 2, poll_id |-> 2, share_code |-> "poll_2", created_by |-> "u2"] }

InitWith(seeds) ==
    /\ \E p1 \in seeds : polls = {p1, SeedPoll2}
    /\ poll_options = SeedOptions
    /\ votes = {}
    /\ poll_shares = SeedShares
    /\ nextPollId = 3
    /\ nextOptionId = 4
    /\ nextVoteId = 1
    /\ now = 0
    /\ issued = 0
    /\ req = [p \in Procs |-> IdleReq]

Init == InitWith(SeedPoll1)

\* the interleaved runs start from an open poll 1 without expiry instant
InitOpen == InitWith({p \in SeedPoll1 : p.status = "active" /\ p.expires_at = None})

\* ------------------------------------------------------------- specifications
\* a step of a request in flight
Step(p) ==
    \/ SubmitVoteFetchPoll(p)
    \/ SubmitVoteCheckOptions(p)
    \/ SubmitVoteCheckExisting(p)
    \/ SubmitVoteInsert(p)
    \/ UpdatePollCheck(p)
    \/ UpdatePollScalars(p)
    \/ UpdatePollDeleteOptions(p)
    \/ UpdatePollInsertOptions(p)
    \/ DeletePollCheck(p)
    \/ DeletePollOptions(p)
    \/ DeletePollRow(p)
    \/ Return(p)

\* requests of independent callers, interleaved at every datastore call
Next ==
    \/ Tick
    \/ \E p \in Procs :
        \/ StartSubmitVote(p, NarrowVoteInputs)
        \/ StartUpdatePoll(p)
        \/ StartDeletePoll(p)
        \/ Step(p)

Spec == InitOpen /\ [][Next]_vars

\* requests one after the other: a request starts when no other is in flight
NextSeq ==
    \/ Tick
    \/ \E p \in Procs :
        \/ Quiescent /\ StartSubmitVote(p, VoteInputs)
        \/ Quiescent /\ StartUpdatePoll(p)
        \/ Quiescent /\ StartDeletePoll(p)
        \/ Step(p)

SpecSeq == Init /\ [][NextSeq]_vars

\* polls are created and deleted, votes cast and results read, one request after
\* the other, from a state with a poll of each kind
CreateInputsSeq == {in \in CreateInputs : in.form.title = "T1" \/ in.caller = Some("u1")}

MediumVoteInputs ==
    {in \in VoteInputs : in.caller # Some("u2") /\ in.voter.voter_name # Some("")}

NextLife ==
    \/ Tick
    \/ \E p \in Procs :
        \/ Quiescent /\ StartCreatePoll(p, CreateInputsSeq)
        \/ Quiescent /\ StartSubmitVote(p, MediumVoteInputs)
        \/ Quiescent /\ StartDeletePoll(p)
        \/ Quiescent /\ GetPollResults(p)
        \/ Quiescent /\ GetPollById(p)
        \/ SubmitVoteFetchPoll(p)
        \/ SubmitVoteCheckOptions(p)
        \/ SubmitVoteCheckExisting(p)
        \/ SubmitVoteInsert(p)
        \/ CreatePollProfile(p)
        \/ CreatePollInsert(p)
        \/ CreatePollInsertOptions(p)
        \/ CreatePollCleanup(p)
        \/ DeletePollCheck(p)
        \/ DeletePollOptions(p)
        \/ DeletePollRow(p)
        \/ Return(p)

SpecLife == Init /\ [][NextLife]_vars

\* creates, updates, deletes and vote submissions interleaved at every datastore
\* call, results and polls read between them: the writes are those of anonymous
\* callers and of u1, the votes those of anonymous callers and of u2
InitAll == InitWith({SeedPoll("active", FALSE, None)})

AllCreateInputs == {in \in CreateInputs : in.form.title = "T1"}
AllUpdateInputs == {in \in UpdateInputs : in.caller # Some("u2")}
AllDeleteInputs == {in \in DeleteInputs : in.caller # Some("u2")}
AllVoteInputs ==
    {in \in NarrowVoteInputs : in.caller # Some("u1") /\ in.voter.voter_name = None}

NextAll ==
    \/ Tick
    \/ \E p \in Procs :
        \/ StartCreatePoll(p, AllCreateInputs)
        \/ StartSubmitVote(p, AllVoteInputs)
        \/ StartUpdatePollWith(p, AllUpdateInputs)
        \/ StartDeletePollWith(p, AllDeleteInputs)
        \/ Quiescent /\ GetPollResults(p)
        \/ Quiescent /\ GetPollById(p)
        \/ CreatePollProfile(p)
        \/ CreatePollInsert(p)
        \/ CreatePollInsertOptions(p)
        \/ CreatePollCleanup(p)
        \/ Step(p)

SpecAll == InitAll /\ [][NextAll]_vars

\* the five functions one request after the other, every datastore call of theirs
\* returning data, returning an error, or throwing
FaultCreateInputs == {in \in CreateInputs : in.form.title = "T1" /\ in.caller # Some("u2")}
FaultUpdateInputs == {in \in UpdateInputs : in.form.title = "T1" /\ in.caller # Some("u2")}
FaultDeleteInputs == {in \in DeleteInputs : in.caller # Some("u2")}

NextFaults ==
    \E p \in Procs :
        \/ Quiescent /\ StartCreatePoll(p, FaultCreateInputs)
        \/ Quiescent /\ StartSubmitVote(p, AllVoteInputs)
        \/ Quiescent /\ StartUpdatePollWith(p, FaultUpdateInputs)
        \/ Quiescent /\ StartDeletePollWith(p, FaultDeleteInputs)
        \/ Quiescent /\ GetPollById(p)
        \/ Quiescent /\ GetPollByIdThrows(p)
        \/ CreatePollProfile(p)
        \/ CreatePollInsert(p)
        \/ CreatePollInsertOptions(p)
        \/ CreatePollCleanup(p)
        \/ Throw(p)
        \/ Step(p)

SpecFaults == InitAll /\ [][NextFaults]_vars

\* the middleware and the auth actions, interleaved
NextAuth ==
    \E p \in Procs :
        \/ updateSession(p)
        \/ StartAuth(p)
        \/ AuthCall(p)
        \/ Return(p)

SpecAuth == InitAll /\ [][NextAuth]_vars

\* one CreatePollForm at a time, from its mount to the redirect after a success
NextForm ==
    \E p \in Procs :
        \/ MountCreatePollForm(p)
        \/ addOption(p)
        \/ removeOption(p)
        \/ updateOption(p)
        \/ updateTitle(p)
        \/ handleSubmit(p)
        \/ FormResponse(p)
        \/ Return(p)

SpecForm == InitAll /\ [][NextForm]_vars

\* ============================================================= properties
Done(p) == req[p].pc = "done"

\* the rows of a table that belong to a poll
VotesOf(table, poll_id) == {v \in table : v.poll_id = poll_id}
OptionsOf(table, poll_id) == {o \in table : o.poll_id = poll_id}
OptionIdsOf(table, poll_id) == {o.id : o \in OptionsOf(table, poll_id)}
PollRows(table, poll_id) == {x \in table : x.id = poll_id}

\* the caller of the request had a vote row on its poll when the request started
HadVoted(r) == \E v \in r.pre.votes : v.poll_id = r.poll_id /\ v.voter_id = r.caller

\* the request has issued that datastore call
Issued(r, call) == call \in Range(r.calls)

\* ------------------------------------------------------------- C1
\* C1 (as claimed): a submitVote of an authenticated caller who already has a vote
\* row on a poll with multi-vote disabled, once it has come to the existing-votes
\* lookup, ends with 'You have already voted on this poll' and stores no row,
\* whatever the lookup returns.
C1_AlreadyVotedRejected ==
    \A p \in Procs :
        LET r == req[p]
        IN  ( /\ Done(p) /\ r.op = "submitVote"
              /\ r.caller # None /\ HadVoted(r)
              /\ Issued(r, "votes.select")
              /\ ~r.poll[1].allow_multiple_votes )
            => /\ r.result.error = "You have already voted on this poll"
               /\ votes = r.pre.votes

\* ------------------------------------------------------------- C2
\* C2 (as claimed): a poll whose multi-vote flag is false holds at most one vote
\* row per authenticated identity.
C2_OneVotePerIdentity ==
    \A poll \in polls : \A u \in Users :
        ~poll.allow_multiple_votes
            => Cardinality({v \in VotesOf(votes, poll.id) : v.voter_id = Some(u)}) <= 1

\* ------------------------------------------------------------- C3
\* the request stands before its insert although its caller has, by now, a vote
\* row on the same single-vote poll: the other request's insert came between this
\* request's existing-votes lookup and its own insert
PassedCheckBeforeOtherInsert(r) ==
    /\ r.op = "submitVote" /\ r.pc = "sv_insert"
    /\ r.caller # None
    /\ "votes.select" \notin r.failed
    /\ ~r.poll[1].allow_multiple_votes
    /\ \E v \in VotesOf(votes, r.poll_id) : v.voter_id = r.caller

\* C3: when two submissions of one identity on a multi-vote-disabled poll have both
\* passed the existing-votes check, the row the first one stored for another
\* option does not make the datastore reject the second insert: the uniqueness
\* constraint lets it through, and only a policy or a foreign key can refuse it.
C3_SecondInsertNotRejected ==
    \A p \in Procs :
        LET r    == req[p]
            rows == VotesToInsert(r)
        IN  ( /\ PassedCheckBeforeOtherInsert(r)
              /\ \A v \in VotesOf(votes, r.poll_id) :
                    v.voter_id = r.caller => v.option_id \notin Range(r.option_ids) )
            => ( VotesInsertAccepted(r.caller, rows, now)
                    <=> \A i \in 1..Len(rows) :
                            /\ VotesInsertPolicy(r.caller, rows[i], now)
                            /\ VotesForeignKeys(rows[i]) )

\* both requests succeeded, each after an existing-votes lookup that did not fail,
\* and the identity has two rows for two options of the single-vote poll
C3_TwoRowsReached ==
    \E p, q \in Procs :
        /\ p # q /\ Done(p) /\ Done(q)
        /\ req[p].op = "submitVote" /\ req[q].op = "submitVote"
        /\ req[p].result.success /\ req[q].result.success
        /\ req[p].caller # None /\ req[p].caller = req[q].caller
        /\ req[p].poll_id = req[q].poll_id
        /\ req[p].option_ids # req[q].option_ids
        /\ req[p].failed = {} /\ req[q].failed = {}
        /\ \A poll \in PollRows(polls, req[p].poll_id) : ~poll.allow_multiple_votes
        /\ ~req[p].poll[1].allow_multiple_votes /\ ~req[q].poll[1].allow_multiple_votes
        /\ Cardinality({v \in VotesOf(votes, req[p].poll_id) : v.voter_id = req[p].caller}) = 2

\* ------------------------------------------------------------- C4
\* some requested option id is not the id of an option of the request's poll
\* (as the tables were when the request started)
RequestsForeignOption(r) ==
    \E i \in 1..Len(r.option_ids) :
        r.option_ids[i] \notin OptionIdsOf(r.pre.poll_options, r.poll_id)

\* the poll is active and its expiry instant, if any, is after t
OpenAt(poll, t) ==
    /\ poll.status = "active"
    /\ (IF poll.expires_at = None THEN TRUE ELSE poll.expires_at[1] > t)

\* C4 (as claimed): for a poll that exists, is active and is not expired, a
\* submitVote naming an option id that does not belong to the poll fails with
\* 'Invalid options selected' and stores no row, whoever the caller is.
C4_InvalidOptionsAnyCaller ==
    \A p \in Procs :
        LET r == req[p]
        IN  ( /\ Done(p) /\ r.op = "submitVote" /\ r.failed = {}
              /\ RequestsForeignOption(r)
              /\ \E poll \in PollRows(r.pre.polls, r.poll_id) : OpenAt(poll, now) )
            => /\ r.result.error = "Invalid options selected"
               /\ votes = r.pre.votes

\* C4 (amended): the same for a poll the caller can read (a public poll or the
\* caller's own) when the poll fetch does not fail.
C4_InvalidOptionsRejected ==
    \A p \in Procs :
        LET r == req[p]
        IN  ( /\ Done(p) /\ r.op = "submitVote" /\ "polls.select" \notin r.failed
              /\ RequestsForeignOption(r)
              /\ \E poll \in PollRows(r.pre.polls, r.poll_id) :
                    PollsSelectPolicy(r.caller, poll) /\ OpenAt(poll, now) )
            => /\ ~r.result.success
               /\ r.result.error = "Invalid options selected"
               /\ votes = r.pre.votes

\* an anonymous and an authenticated caller have each been refused for a list
\* that mixes an option of the poll with one of another poll
C4_MixedListRefused ==
    \E p \in Procs :
        LET r == req[p]
        IN  /\ Done(p) /\ r.op = "submitVote" /\ r.failed = {}
            /\ r.result.error = "Invalid options selected"
            /\ Len(r.option_ids) = 2
            /\ r.option_ids[1] \in OptionIdsOf(r.pre.poll_options, r.poll_id)
            /\ r.option_ids[2] \notin OptionIdsOf(r.pre.poll_options, r.poll_id)
            /\ \E poll \in PollRows(r.pre.polls, r.poll_id) :
                    PollsSelectPolicy(r.caller, poll) /\ OpenAt(poll, now)

\* ------------------------------------------------------------- C5
\* C5 (as claimed): a submitVote whose poll fetch returns an active poll with an
\* expiry instant e <= now (e = now included) ends there with 'Poll has expired'.
C5_ExpiredAtOrBeforeNow ==
    [][ \A p \in Procs :
          ( /\ req[p].op = "submitVote" /\ req[p].pc = "sv_poll"
            /\ req'[p] # req[p]
            /\ "polls.select" \notin req'[p].failed
            /\ \E poll \in SelectPoll(req[p].caller, req[p].poll_id) :
                  /\ poll.status = "active"
                  /\ (IF poll.expires_at = None THEN FALSE ELSE poll.expires_at[1] <= now) )
          => /\ req'[p].pc = "done"
             /\ req'[p].result.error = "Poll has expired" ]_vars

\* ------------------------------------------------------------- C6
\* the datastore calls of a complete submitVote, in the order of the code
ExpectedCalls(r) ==
    IF r.caller = None
        THEN <<"polls.select", "poll_options.select", "votes.insert">>
    ELSE <<"polls.select", "poll_options.select", "votes.select", "votes.insert">>

Failed(r, message) == r.pc = "done" /\ ~r.result.success /\ r.result.error = message

\* what the calls issued so far say about the outcome: the calls are a prefix of
\* the expected ones, a failed check leaves no later call behind it, and the
\* insert comes after every check
C6_CallOrder ==
    \A p \in Procs :
        LET r == req[p]
            n == Len(r.calls)
        IN  r.op = "submitVote" =>
              /\ n <= Len(ExpectedCalls(r))
              /\ r.calls = SubSeq(ExpectedCalls(r), 1, n)
              /\ ( \/ Failed(r, "Poll not found") \/ Failed(r, "Poll is not active")
                   \/ Failed(r, "Poll has expired") ) => n = 1
              /\ Failed(r, "Invalid options selected") => n = 2
              /\ Failed(r, "You have already voted on this poll") => n = 3
              /\ Issued(r, "votes.insert") =>
                    /\ n = Len(ExpectedCalls(r))
                    /\ r.pc = "done"
                    /\ "polls.select" \notin r.failed
                    /\ "poll_options.select" \notin r.failed
                    /\ r.poll # None
                    /\ (IF r.poll = None THEN FALSE ELSE r.poll[1].status = "active")

\* what one step of a submitVote does: it issues the next call, and of the checks
\* that would fail on what the call returns the earliest one is reported
C6_CheckStep(p) ==
    LET r     == req[p]
        r2    == req'[p]
        rows  == SelectPoll(r.caller, r.poll_id)
        found == rows # {} /\ "polls.select" \notin r2.failed
    IN  (r.op = "submitVote" /\ r2.op = "submitVote" /\ r2 # r) =>
          /\ Len(r2.calls) = Len(r.calls) + 1
          /\ r.pc = "sv_poll" =>
                /\ ~found => Failed(r2, "Poll not found")
                /\ \A poll \in rows :
                      /\ (found /\ poll.status # "active") => Failed(r2, "Poll is not active")
                      /\ ( /\ found /\ poll.status = "active"
                           /\ (IF poll.expires_at = None THEN FALSE
                               ELSE poll.expires_at[1] < now) )
                          => Failed(r2, "Poll has expired")
                /\ r2.pc # "done" => r2.pc = "sv_options"
          /\ r.pc = "sv_options" =>
                /\ (\E i \in 1..Len(r.option_ids) :
                        r.option_ids[i] \notin OptionIdsOf(poll_options, r.poll_id))
                      => Failed(r2, "Invalid options selected")
                /\ r2.pc # "done" => r2.pc \in {"sv_existing", "sv_insert"}
          /\ r.pc = "sv_existing" =>
                \/ r2.pc = "sv_insert"
                \/ Failed(r2, "You have already voted on this poll")
          /\ r.pc = "sv_insert" => r2.pc = "done"

Supplied(x) == IF x = None THEN None ELSE IF x[1] = "" THEN None ELSE x

\* C7: when submitVote succeeds the rows added are exactly one per requested
\* option id, each with the poll id, that option id, the caller's profile id (null
\* for an anonymous caller) and the supplied voter name and email (null when not
\* supplied); the rows that were there stay.
C7_RowsAdded ==
    \A p \in Procs :
        LET r     == req[p]
            added == votes \ r.pre.votes
        IN  (Done(p) /\ r.op = "submitVote" /\ r.result.success) =>
              /\ r.pre.votes \subseteq votes
              /\ Cardinality(added) = Len(r.option_ids)
              /\ \A i \in 1..Len(r.option_ids) :
                    Cardinality({v \in added : v.option_id = r.option_ids[i]}) = 1
              /\ \A v \in added :
                    /\ v.option_id \in Range(r.option_ids)
                    /\ v.poll_id = r.poll_id
                    /\ v.voter_id = r.caller
                    /\ v.voter_name = Supplied(r.voter_name)
                    /\ v.voter_email = Supplied(r.voter_email)

\* an anonymous submission without name and email has succeeded, and its row has
\* the three voter fields null
C7_AnonymousStored ==
    \E p \in Procs :
        LET r == req[p]
        IN  /\ Done(p) /\ r.op = "submitVote" /\ r.result.success
            /\ r.caller = None /\ r.voter_name = None /\ r.voter_email = None
            /\ \E v \in votes \ r.pre.votes :
                  v.voter_id = None /\ v.voter_name = None /\ v.voter_email = None

\* ------------------------------------------------------------- C8
\* C8 (as claimed): in every reachable state no authenticated identity has two
\* vote rows for the same option of the same poll, a null voter email included.
C8_NoSecondRowForOption ==
    \A v, w \in votes :
        ( /\ v.poll_id = w.poll_id /\ v.option_id = w.option_id
          /\ v.voter_id # None /\ v.voter_id = w.voter_id )
        => v = w

\* ------------------------------------------------------------- C9
NotOwnerMessage(op) ==
    IF op = "updatePoll" THEN "You can only update your own polls"
    ELSE "You can only delete your own polls"

\* an updatePoll or deletePoll of an authenticated caller for a poll of somebody else
ByNonOwner(r) ==
    /\ r.op \in {"updatePoll", "deletePoll"}
    /\ r.caller # None
    /\ \E poll \in PollRows(r.pre.polls, r.poll_id) : ~IsOwner(r.caller, poll)

\* C9 (as claimed): for every poll and every authenticated caller who is not its
\* owner, updatePoll and deletePoll fail with 'You can only update/delete your own
\* polls' and leave the poll, option and vote rows unchanged, in every
\* interleaving (the poll still there and the ownership lookup not failing).
C9_NonOwnerToldNotOwner ==
    [][ \A p \in Procs :
          ( /\ ByNonOwner(req[p]) /\ req[p].pc \in {"up_check", "del_check"}
            /\ req'[p] # req[p]
            /\ "polls.select" \notin req'[p].failed
            /\ PollRows(polls, req[p].poll_id) # {} )
          => /\ Failed(req'[p], NotOwnerMessage(req[p].op))
             /\ db' = db ]_vars

\* the answer to a non-owner: no success, and nothing but the ownership lookup
\* was issued
C9_Refused ==
    \A p \in Procs :
        LET r == req[p]
        IN  ByNonOwner(r) =>
              /\ r.pc \in {"up_check", "del_check", "done"}
              /\ r.pc = "done" =>
                    /\ ~r.result.success
                    /\ r.calls = <<"polls.select">>
                    /\ r.result.error \in {NotOwnerMessage(r.op), "Poll not found",
                                           "Failed to check poll"}

\* the step of a non-owner's request: it changes no row, and its message is the
\* not-owner one exactly when the lookup returns the poll
C9_RefusalStep(p) ==
    LET r     == req[p]
        r2    == req'[p]
        shown == SelectPoll(r.caller, r.poll_id)
    IN  (ByNonOwner(r) /\ r.pc \in {"up_check", "del_check"} /\ r2 # r) =>
          /\ db' = db
          /\ r2.pc = "done"
          /\ "polls.select" \notin r2.failed =>
                IF shown # {} THEN Failed(r2, NotOwnerMessage(r.op))
                ELSE Failed(r2, "Poll not found")

\* C9 (amended): for every poll and every authenticated caller who is not its
\* owner, updatePoll and deletePoll fail after the ownership lookup and leave
\* the poll, option and vote rows unchanged, in every interleaving; the message is
\* 'You can only update/delete your own polls' when the lookup returns the poll
\* (a poll the caller can read) and 'Poll not found' when the poll is hidden from
\* the caller (a private poll) or gone.
C9_NonOwnerRefused ==
    /\ []C9_Refused
    /\ [][\A p \in Procs : C9_RefusalStep(p)]_vars

\* a non-owner has been refused with the not-owner message on a poll that has
\* votes, and every row is as it was
C9_RefusedWithVotesKept ==
    \E p \in Procs :
        LET r == req[p]
        IN  /\ ByNonOwner(r) /\ r.failed = {}
            /\ Failed(r, NotOwnerMessage(r.op))
            /\ VotesOf(votes, r.poll_id) # {}
            /\ polls = r.pre.polls /\ poll_options = r.pre.poll_options
            /\ votes = r.pre.votes

\* ------------------------------------------------------------- C10
\* C10: after a successful updatePoll with no concurrent request the poll's option
\* rows are exactly the submitted texts, trimmed, with order 1..n in input order,
\* none of the previous option ids survives, and the poll has no vote row, also
\* when the submitted texts equal the old ones.
C10_OptionsReplaced ==
    \A p \in Procs :
        LET r     == req[p]
            texts == r.form.options
            opts  == OptionsOf(poll_options, r.poll_id)
        IN  (Done(p) /\ r.op = "updatePoll" /\ r.result.success) =>
              /\ Cardinality(opts) = Len(texts)
              /\ \A i \in 1..Len(texts) :
                    \E o \in opts :
                        /\ o.order_index = i
                        /\ o.text = trim(texts[i])
                        /\ (o.text = << >> \/ (o.text[1] # " " /\ o.text[Len(o.text)] # " "))
              /\ OptionIdsOf(poll_options, r.poll_id)
                    \cap {o.id : o \in r.pre.poll_options} = {}
              /\ VotesOf(votes, r.poll_id) = {}
              /\ \A v \in votes : v.option_id \in {o.id : o \in poll_options}

\* an update that resubmitted the old texts of a poll with votes has succeeded
C10_SameTextsReplaced ==
    \E p \in Procs :
        LET r == req[p]
        IN  /\ Done(p) /\ r.op = "updatePoll" /\ r.result.success
            /\ VotesOf(r.pre.votes, r.poll_id) # {}
            /\ {o.text : o \in OptionsOf(r.pre.poll_options, r.poll_id)}
                  = {o.text : o \in OptionsOf(poll_options, r.poll_id)}
            /\ \E i \in 1..Len(r.form.options) : r.form.options[i] # trim(r.form.options[i])

\* ------------------------------------------------------------- C11
\* the option rows of the poll are those of the form: one row per text, trimmed,
\* with order 1..n, and no other row
OptionsAreThoseOf(form, opts) ==
    /\ Cardinality(opts) = Len(form.options)
    /\ {<<o.order_index, o.text>> : o \in opts}
          = {<<i, trim(form.options[i])>> : i \in 1..Len(form.options)}

\* C11 (as claimed): when two updatePoll requests of the owner on the same poll
\* have both succeeded, the poll's option set is exactly the option list of one
\* of the two requests, never a union or a mixture, in every interleaving.
C11_LastWriteWins ==
    \A p, q \in Procs :
        LET r == req[p]
            s == req[q]
        IN  ( /\ p # q /\ Done(p) /\ Done(q)
              /\ r.op = "updatePoll" /\ s.op = "updatePoll"
              /\ r.result.success /\ s.result.success
              /\ r.poll_id = s.poll_id )
            => \/ OptionsAreThoseOf(r.form, OptionsOf(poll_options, r.poll_id))
               \/ OptionsAreThoseOf(s.form, OptionsOf(poll_options, r.poll_id))

\* ------------------------------------------------------------- C12
\* C12 (as claimed): when createPoll has inserted the poll row and the option
\* insert fails, the compensating delete is issued, createPoll returns the failure
\* 'Failed to create poll options', and no poll row created by the call remains:
\* the polls are as they were before the call.
C12_FailedCreateLeavesNoPoll ==
    \A p \in Procs :
        LET r == req[p]
        IN  ( /\ Done(p) /\ r.op = "createPoll"
              /\ "poll_options.insert" \in r.failed )
            => /\ Issued(r, "polls.delete")
               /\ Failed(r, "Failed to create poll options")
               /\ (IF r.created = None THEN TRUE ELSE PollRows(polls, r.created[1]) = {})
               /\ polls = r.pre.polls

\* ------------------------------------------------------------- C13
LoginMessage(op) ==
    IF op = "createPoll" THEN "You must be logged in to create a poll"
    ELSE IF op = "updatePoll" THEN "You must be logged in to update a poll"
    ELSE "You must be logged in to delete a poll"

\* what the requests of callers without a session or without a profile have come
\* to: refused with no datastore write issued
C13_Refused ==
    \A p \in Procs :
        LET r == req[p]
        IN  /\ (r.op \in {"createPoll", "updatePoll", "deletePoll"} /\ r.caller = None)
                => Failed(r, LoginMessage(r.op)) /\ r.calls = << >>
            /\ (r.op = "createPoll" /\ r.caller = Some(NoProfileUser))
                => /\ r.pc \in {"cr_profile", "done"}
                   /\ r.pc = "done" =>
                        /\ Failed(r, "User profile not found. Please try logging out and back in.")
                        /\ r.calls = <<"profiles.select">>

\* a step of a request of such a caller, its start included, changes nothing but
\* the votes, which only grow, and a caller without profile changes nothing
C13_NoWriteStep(p) ==
    LET r2 == req'[p]
    IN  (r2 # req[p] /\ r2.op # "none") =>
          /\ r2.caller = None =>
                /\ polls' = polls /\ poll_options' = poll_options
                /\ poll_shares' = poll_shares
                /\ votes \subseteq votes'
                /\ \A v \in votes' \ votes : v.voter_id = None
          /\ r2.caller = Some(NoProfileUser) =>
                /\ polls' = polls /\ poll_options' = poll_options
                /\ poll_shares' = poll_shares /\ votes' = votes

\* C13: an unauthenticated caller never changes polls or poll_options: createPoll,
\* updatePoll and deletePoll fail with the 'must be logged in' error before any
\* write is issued, createPoll of an authenticated caller without profile row
\* fails with 'User profile not found' before any write, and the only rows an
\* anonymous caller ever adds are vote rows.
C13_AnonymousWritesOnlyVotes ==
    /\ []C13_Refused
    /\ [][\A p \in Procs : C13_NoWriteStep(p)]_vars

\* an anonymous createPoll has been refused while an anonymous vote was stored
C13_RefusedAndVoted ==
    \E p, q \in Procs :
        /\ req[p].op = "createPoll" /\ req[p].caller = None
        /\ Failed(req[p], "You must be logged in to create a poll")
        /\ req[q].op = "submitVote" /\ req[q].caller = None
        /\ Done(q) /\ req[q].result.success
        /\ \E v \in votes : v.voter_id = None
        /\ polls = req[p].pre.polls /\ poll_options = req[p].pre.poll_options

\* ------------------------------------------------------------- C14
\* C14: after a successful createPoll with option texts t1..tn the new poll's
\* owner is the caller's profile and it has exactly n option rows, the i-th with
\* text trim(ti) and order index i, is_public is true and allow_multiple_votes
\* false when the form leaves them out (and as given otherwise).
C14_CreatedAsSubmitted ==
    \A p \in Procs :
        LET r == req[p]
        IN  (Done(p) /\ r.op = "createPoll" /\ r.result.success) =>
              /\ r.created # None
              /\ r.pre.polls \subseteq polls
              /\ polls \ r.pre.polls # {}
              /\ \A poll \in polls \ r.pre.polls :
                    /\ Some(poll.id) = r.created
                    /\ Some(poll.created_by) = r.caller
                    /\ poll.created_by \in Users
                    /\ poll.title = r.form.title
                    /\ poll.is_public =
                          (IF r.form.is_public = None THEN TRUE ELSE r.form.is_public[1])
                    /\ poll.allow_multiple_votes =
                          (IF r.form.allow_multiple_votes = None THEN FALSE
                           ELSE r.form.allow_multiple_votes[1])
                    /\ OptionsAreThoseOf(r.form, OptionsOf(poll_options, poll.id))
                    /\ \A o \in OptionsOf(poll_options, poll.id) :
                          o.text = << >> \/ (o.text[1] # " " /\ o.text[Len(o.text)] # " ")
              /\ poll_options \ r.pre.poll_options
                    = UNION {OptionsOf(poll_options, poll.id) : poll \in polls \ r.pre.polls}

\* a poll created from a form without the two flags and with blanks around its
\* two option texts
C14_DefaultsApplied ==
    \E p \in Procs :
        LET r == req[p]
        IN  /\ Done(p) /\ r.op = "createPoll" /\ r.result.success
            /\ r.form.is_public = None /\ r.form.allow_multiple_votes = None
            /\ Len(r.form.options) = 2
            /\ \E i \in 1..2 : r.form.options[i] # trim(r.form.options[i])
            /\ \E poll \in polls \ r.pre.polls :
                  /\ poll.is_public /\ ~poll.allow_multiple_votes
                  /\ Cardinality(OptionsOf(poll_options, poll.id)) = 2

\* ------------------------------------------------------------- C15
SharesOf(table, poll_id) == {x \in table : x.poll_id = poll_id}

\* C15: after a successful deletePoll by the owner the poll row is gone and no
\* poll_options, votes or poll_shares row references that poll id; the rows of
\* every other poll are unchanged.
C15_PollAndDependentsGone ==
    \A p \in Procs :
        LET r  == req[p]
            id == r.poll_id
        IN  (Done(p) /\ r.op = "deletePoll" /\ r.result.success) =>
              /\ \A poll \in PollRows(r.pre.polls, id) : IsOwner(r.caller, poll)
              /\ PollRows(polls, id) = {}
              /\ OptionsOf(poll_options, id) = {}
              /\ VotesOf(votes, id) = {}
              /\ SharesOf(poll_shares, id) = {}
              /\ \A v \in votes : v.option_id \notin OptionIdsOf(r.pre.poll_options, id)
              /\ polls = r.pre.polls \ PollRows(r.pre.polls, id)
              /\ poll_options = r.pre.poll_options \ OptionsOf(r.pre.poll_options, id)
              /\ votes = r.pre.votes \ VotesOf(r.pre.votes, id)
              /\ poll_shares = r.pre.poll_shares \ SharesOf(r.pre.poll_shares, id)

\* a poll with options, a vote and a share code has been deleted, and another
\* poll with its rows is still there
C15_DeletedWithDependents ==
    \E p \in Procs :
        LET r == req[p]
        IN  /\ Done(p) /\ r.op = "deletePoll" /\ r.result.success
            /\ PollRows(r.pre.polls, r.poll_id) # {}
            /\ OptionsOf(r.pre.poll_options, r.poll_id) # {}
            /\ VotesOf(r.pre.votes, r.poll_id) # {}
            /\ SharesOf(r.pre.poll_shares, r.poll_id) # {}
            /\ polls # {} /\ poll_options # {} /\ poll_shares # {}

\* ------------------------------------------------------------- C16
\* a getPollResults that has come back with rows
ResultsRead(r) ==
    r.op = "getPollResults" /\ r.pc = "done" /\ r.result.success /\ r.data # None

\* pct (in hundredths of a percent) is count / total * 100 rounded to two places
IsRounded(pct, count, total) ==
    /\ 2 * (pct * total - 10000 * count) <= total
    /\ 2 * (10000 * count - pct * total) < total

\* C16: for every poll, get_poll_results reports for each option the percentage
\* round(count / total * 100, 2) when the poll has votes, and count 0 with
\* percentage 0 for every option when it has none; count is the number of vote
\* rows for the option and total the number of vote rows of the poll.
C16_PercentagesRounded ==
    \A p \in Procs :
        LET r     == req[p]
            total == Cardinality(VotesOf(votes, r.poll_id))
        IN  ResultsRead(r) =>
              \A i \in 1..Len(r.data[1]) :
                  LET row   == r.data[1][i]
                      count == Cardinality({v \in votes : v.option_id = row.option_id})
                  IN  /\ row.vote_count = count
                      /\ total > 0 => IsRounded(row.percentage, count, total)
                      /\ total = 0 => (row.vote_count = 0 /\ row.percentage = 0)

\* options [A, B] with three votes A, A, B are reported as A: 2, 66.67 and
\* B: 1, 33.33
C16_TwoThirdsOneThird ==
    \E p \in Procs :
        /\ ResultsRead(req[p])
        /\ Len(req[p].data[1]) = 2
        /\ req[p].data[1][1].option_text = <<"A">>
        /\ req[p].data[1][1].vote_count = 2 /\ req[p].data[1][1].percentage = 6667
        /\ req[p].data[1][2].option_text = <<"B">>
        /\ req[p].data[1][2].vote_count = 1 /\ req[p].data[1][2].percentage = 3333

\* ------------------------------------------------------------- C17
RECURSIVE SumOfCounts(_)
SumOfCounts(rows) ==
    IF rows = << >> THEN 0 ELSE Head(rows).vote_count + SumOfCounts(Tail(rows))

\* C17 (as claimed): in every reachable state the vote counts get_poll_results
\* reports for a poll sum up to the number of vote rows of that poll.
C17_CountsSumToVotes ==
    \A p \in Procs :
        LET r == req[p]
        IN  ResultsRead(r) =>
              SumOfCounts(r.data[1]) = Cardinality(VotesOf(r.pre.votes, r.poll_id))

\* C17 (amended): in every reachable state, whatever requests are in flight, the
\* counts get_poll_results reports to a caller who can read the poll (a public
\* poll, or the caller's own) sum up to the number of vote rows of that poll;
\* to a caller from whom the poll is hidden it reports no rows.
C17_CountsSumForReaders ==
    /\ \A poll \in polls : \A c \in Callers :
          \A data \in get_poll_results(c, poll.id) :
              IF PollsSelectPolicy(c, poll)
                  THEN SumOfCounts(data) = Cardinality(VotesOf(votes, poll.id))
              ELSE data = << >>
    /\ \A p \in Procs :
          LET r == req[p]
          IN  ( /\ ResultsRead(r)
                /\ \E poll \in PollRows(r.pre.polls, r.poll_id) :
                      PollsSelectPolicy(r.caller, poll) )
              => SumOfCounts(r.data[1]) = Cardinality(VotesOf(r.pre.votes, r.poll_id))

\* the results of a poll with votes on two options have been read by a caller
\* who is not its owner
C17_SumOfTwoRead ==
    \E p \in Procs :
        LET r == req[p]
        IN  /\ ResultsRead(r)
            /\ \E poll \in PollRows(r.pre.polls, r.poll_id) : ~IsOwner(r.caller, poll)
            /\ SumOfCounts(r.data[1]) = 2
            /\ \A i \in 1..Len(r.data[1]) : r.data[1][i].vote_count < 2

\* ------------------------------------------------------------- C18
\* the option row a result row was made of
OptionOfRow(table, row) == CHOOSE o \in table : o.id = row.option_id

\* the rows are one per option row of the poll, zero counts included, by
\* order_index and then created_at
OneRowPerOptionInOrder(data, table, poll_id) ==
    /\ Len(data) = Cardinality(OptionsOf(table, poll_id))
    /\ {data[i].option_id : i \in 1..Len(data)} = OptionIdsOf(table, poll_id)
    /\ \A i \in 1..Len(data) : data[i].option_text = OptionOfRow(table, data[i]).text
    /\ \A i, j \in 1..Len(data) :
          i < j =>
            LET a == OptionOfRow(table, data[i])
                b == OptionOfRow(table, data[j])
            IN  \/ a.order_index < b.order_index
                \/ a.order_index = b.order_index /\ a.created_at <= b.created_at

\* C18 (as claimed): get_poll_results returns exactly one row per option that
\* belongs to the poll, options without votes included, ordered by display order
\* and then creation time, and no row for an option of another poll.
C18_OneRowPerOption ==
    \A p \in Procs :
        LET r == req[p]
        IN  ResultsRead(r) => OneRowPerOptionInOrder(r.data[1], r.pre.poll_options, r.poll_id)

\* C18 (amended): the same for a caller who can read the poll (a public poll, or
\* the caller's own); for a poll hidden from the caller no row is returned.
C18_OneRowPerOptionForReaders ==
    \A p \in Procs :
        LET r == req[p]
        IN  ResultsRead(r) =>
              \A poll \in PollRows(r.pre.polls, r.poll_id) :
                  IF PollsSelectPolicy(r.caller, poll)
                      THEN OneRowPerOptionInOrder(r.data[1], r.pre.poll_options, r.poll_id)
                  ELSE r.data[1] = << >>

\* results with an option without votes, and with two options of the same display
\* order told apart by their creation time
C18_TieBrokenByCreation ==
    \E p \in Procs :
        LET r   == req[p]
            opt(i) == OptionOfRow(r.pre.poll_options, r.data[1][i])
        IN  /\ ResultsRead(r)
            /\ \E i \in 1..Len(r.data[1]) : r.data[1][i].vote_count = 0
            /\ \E i, j \in 1..Len(r.data[1]) :
                  /\ i < j
                  /\ opt(i).order_index = opt(j).order_index
                  /\ opt(i).created_at < opt(j).created_at

\* ------------------------------------------------------------- C19
\* the datastore calls a function has to go through without a throw
AllCallsOf(op) ==
    IF op = "createPoll" THEN {"profiles.select", "polls.insert", "poll_options.insert", "polls.delete"}
    ELSE IF op = "updatePoll"
        THEN {"polls.select", "polls.update", "poll_options.delete", "poll_options.insert"}
    ELSE IF op = "deletePoll" THEN {"polls.select", "poll_options.delete", "polls.delete"}
    ELSE IF op = "getPollById" THEN {"polls.select"}
    ELSE {"polls.select", "poll_options.select", "votes.select", "votes.insert"}

PrivateOfAnother(table, uid, id) ==
    \E poll \in table : poll.id = id /\ ~poll.is_public /\ uid # Some(poll.created_by)

\* the poll fetch of a submitVote or getPollById on a private poll of another user
\* finds no row and ends the request
C20_FetchStep(p) ==
    LET r == req[p]
        r2 == req'[p]
    IN  /\ (r.pc = "sv_poll" /\ r2 # r /\ PrivateOfAnother(polls, r.caller, r.poll_id)) =>
              /\ r2.pc = "done" /\ ~r2.result.success
              /\ "polls.select" \notin r2.failed => r2.result.error = "Poll not found"
        /\ (r.pc = "idle" /\ r2.op = "getPollById"
                /\ PrivateOfAnother(polls, r2.caller, r2.poll_id)) =>
              /\ r2.pc = "done" /\ ~r2.result.success /\ r2.data = None
              /\ r2.result.error = "Failed to fetch poll"

\* every vote row a step adds is of a request whose caller can read the poll:
\* the poll is public or the caller's own
C20_RecordStep ==
    \A v \in votes' \ votes :
        \E p \in Procs :
            /\ req[p].pc = "sv_insert" /\ req'[p].pc = "done"
            /\ req[p].poll_id = v.poll_id
            /\ v.voter_id = req[p].caller
            /\ ~PrivateOfAnother(polls, req[p].caller, v.poll_id)

\* C20: a caller who is not the owner of a private poll can neither read it nor
\* vote on it: the poll fetch of submitVote and getPollById returns no row, the
\* request fails as poll not found, and no step ever records a vote row of a
\* non-owner on a private poll.
C20_PrivatePollClosedToOthers ==
    /\ [][\A p \in Procs : C20_FetchStep(p)]_vars
    /\ [][C20_RecordStep]_vars

\* u2 was refused a vote on poll 1, which its owner had made private, and an
\* anonymous caller was refused the read of the private poll 2, neither by an
\* error of the datastore; no vote row was added
C20_BothRefused ==
    \E p, q \in Procs :
        /\ req[p].op = "submitVote" /\ req[p].caller = Some("u2") /\ req[p].poll_id = 1
        /\ PrivateOfAnother(polls, req[p].caller, 1)
        /\ Failed(req[p], "Poll not found") /\ req[p].failed = {}
        /\ req[q].op = "getPollById" /\ req[q].caller = None /\ req[q].poll_id = 2
        /\ PrivateOfAnother(polls, None, 2)
        /\ Failed(req[q], "Failed to fetch poll") /\ req[q].failed = {}
        /\ votes = req[p].pre.votes

\* ------------------------------------------------------------- C21
\* the redirect the claim gives an auth action for the answer of the provider
RedirectFor(op, error) ==
    IF op = "login"
        THEN (IF error THEN "/login?message=Could not authenticate user" ELSE "/dashboard")
    ELSE IF op = "signup"
        THEN (IF error THEN "/register?message=Could not authenticate user"
              ELSE "/login?message=Check email to continue sign in process")
    ELSE "/login"

\* C21: each auth action ends with exactly one redirect chosen by the auth
\* provider's result: login to /dashboard without error and to
\* /login?message=Could not authenticate user otherwise, signup to
\* /login?message=Check email to continue sign in process on success and to
\* /register?message=Could not authenticate user on error, logout to /login once
\* signOut has resolved.
C21_OneRedirectByResult ==
    \A p \in Procs :
        LET r == req[p]
        IN  r.op \in AuthOps =>
              /\ r.pc \in {"au_call", "done"}
              /\ r.pc = "au_call" => r.redirects = << >> /\ r.calls = << >>
              /\ r.pc = "done" =>
                    /\ r.calls = <<AuthCallOf(r.op)>>
                    /\ r.redirects = <<RedirectFor(r.op, AuthCallOf(r.op) \in r.failed)>>

\* a login whose sign-in failed went back to the login page while a signup that
\* succeeded went to the login page with the check-email message
C21_FailedLoginAndSignup ==
    \E p, q \in Procs :
        /\ req[p].op = "login" /\ req[p].pc = "done" /\ req[p].failed = {"auth.signInWithPassword"}
        /\ req[p].redirects = <<"/login?message=Could not authenticate user">>
        /\ req[q].op = "signup" /\ req[q].pc = "done" /\ req[q].failed = {}
        /\ req[q].redirects = <<"/login?message=Check email to continue sign in process">>

\* ------------------------------------------------------------- C22
\* the option list of every mounted form has between 2 and 10 entries
C22_OptionCount ==
    \A p \in Procs :
        req[p].op = "CreatePollForm" =>
            /\ req[p].ui # None
            /\ Len(FormOf(p).options) >= 2 /\ Len(FormOf(p).options) <= 10

\* a step that sends the create request is taken with a non-blank title, no blank
\* option and pairwise distinct trimmed options
C22_SendStep(p) ==
    (req[p].op = "CreatePollForm" /\ req[p].pc = "form" /\ req'[p].pc = "form_fetch") =>
        LET f == FormOf(p)
        IN  /\ trim(f.title) # << >>
            /\ \A i \in 1..Len(f.options) : trim(f.options[i]) # << >>
            /\ \A i, j \in 1..Len(f.options) : i # j => trim(f.options[i]) # trim(f.options[j])

\* C22: in CreatePollForm, starting from two empty options, after any sequence of
\* addOption, removeOption and updateOption the option list has between 2 and 10
\* entries, and handleSubmit sends the create request only when the title is
\* non-blank, every option is non-blank and the trimmed options are pairwise
\* distinct.
C22_FormWithinLimits ==
    /\ []C22_OptionCount
    /\ [][\A p \in Procs : C22_SendStep(p)]_vars

\* a form whose request went out and was answered with an error has grown to ten
\* options since
C22_TenOptionsAfterSend ==
    \E p \in Procs :
        /\ req[p].op = "CreatePollForm" /\ req[p].pc = "form"
        /\ Len(FormOf(p).options) = 10
        /\ FormOf(p).error = "Failed to create poll"

\* ------------------------------------------------------------- C23
\* C23: the option-membership check of submitVote rejects a request only if at
\* least one requested option id does not belong to the poll: a request whose
\* ids all belong to the poll passes the check, one that lists the same valid id
\* more than once included (no call of the datastore failing).
C23_RejectedOnlyForForeignOption ==
    \A p \in Procs :
        LET r == req[p]
        IN  ( /\ Done(p) /\ r.op = "submitVote" /\ r.failed = {}
              /\ r.result.error = "Invalid options selected" )
            => \E i \in 1..Len(r.option_ids) :
                  r.option_ids[i] \notin OptionIdsOf(r.pre.poll_options, r.poll_id)

\* ------------------------------------------------------------- C24
\* C24: in every reachable state, under every interleaving of submitVote with
\* updatePoll and deletePoll, every vote row references an option row that exists
\* and belongs to the same poll as the vote.
C24_VotesReferenceOwnOptions ==
    \A v \in votes :
        \E o \in poll_options : o.id = v.option_id /\ o.poll_id = v.poll_id

\* a vote passed its option check, an update replaced the options of the poll
\* before the insert, and the insert was refused: the option it names is gone
\* while the poll has its new options
C24_InsertAfterReplacementRefused ==
    \E p \in Procs :
        LET r == req[p]
        IN  /\ Done(p) /\ r.op = "submitVote"
            /\ r.calls = <<"polls.select", "poll_options.select", "votes.insert">>
               \/ r.calls = <<"polls.select", "poll_options.select", "votes.select", "votes.insert">>
            /\ r.failed = {"votes.insert"}
            /\ r.option_ids[1] \in OptionIdsOf(r.pre.poll_options, r.poll_id)
            /\ r.option_ids[1] \notin {o.id : o \in poll_options}
            /\ OptionsOf(poll_options, r.poll_id) # {}
            /\ \A v \in votes : v.option_id # r.option_ids[1]

\* ------------------------------------------------------------- C25
\* C25: in deletePoll, when deleting the poll's option rows fails, the delete of
\* the poll row is never issued: the call returns failure 'Failed to delete poll
\* options: ...' and the poll row still exists.
C25_PollKeptWhenOptionsDeleteFails ==
    \A p \in Procs :
        LET r == req[p]
        IN  (r.op = "deletePoll" /\ "poll_options.delete" \in r.failed) =>
              /\ Failed(r, "Failed to delete poll options")
              /\ r.calls = <<"polls.select", "poll_options.delete">>
              /\ PollRows(polls, r.poll_id) # {}
              /\ polls = r.pre.polls /\ poll_options = r.pre.poll_options
              /\ votes = r.pre.votes /\ poll_shares = r.pre.poll_shares

\* the owner of poll 1, which has votes, was refused its deletion because the
\* delete of the options failed: poll, options and votes are all there
C25_OptionsDeleteFailed ==
    \E p \in Procs :
        LET r == req[p]
        IN  /\ r.op = "deletePoll" /\ r.caller = Some("u1") /\ r.poll_id = 1
            /\ Failed(r, "Failed to delete poll options")
            /\ r.failed = {"poll_options.delete"}
            /\ PollRows(polls, 1) # {}
            /\ VotesOf(votes, 1) # {}

\* ------------------------------------------------------------- C26
\* the first n characters of path are those of prefix
BeginsWith(path, prefix) ==
    Len(path) >= Len(prefix) /\ SubSeq(path, 1, Len(prefix)) = prefix

\* C26: updateSession redirects a request to /login exactly when the request has
\* no authenticated user and its path starts with neither /login nor /register;
\* every other request is passed through with the session-cookie response
\* unchanged.
C26_RedirectOnlyUnauthenticated ==
    \A p \in Procs :
        LET r == req[p]
        IN  (r.op = "updateSession" /\ r.pc = "done") =>
              IF /\ r.caller = None
                 /\ ~BeginsWith(r.path, <<"/", "l", "o", "g", "i", "n">>)
                 /\ ~BeginsWith(r.path, <<"/", "r", "e", "g", "i", "s", "t", "e", "r">>)
              THEN /\ r.data[1].kind = "redirect"
                   /\ r.data[1].pathname = <<"/", "l", "o", "g", "i", "n">>
              ELSE /\ r.data[1].kind = "next"
                   /\ r.data = r.poll

\* a visitor without session was sent to /login from /p/login while another
\* without session was let through on /login/x with the refreshed cookies
C26_RedirectedAndPassed ==
    \E p, q \in Procs :
        /\ req[p].op = "updateSession" /\ req[p].pc = "done" /\ req[p].caller = None
        /\ req[p].path = <<"/", "p", "/", "l", "o", "g", "i", "n">>
        /\ req[p].data[1].kind = "redirect"
        /\ req[q].op = "updateSession" /\ req[q].pc = "done" /\ req[q].caller = None
        /\ req[q].path = <<"/", "l", "o", "g", "i", "n", "/", "x">>
        /\ req[q].data[1] = [kind |-> "next", pathname |-> << >>, cookies |-> "refreshed"]

\* ------------------------------------------------------------- C27
\* C27: updatePoll is all-or-nothing: whenever it returns failure, a failure of
\* the option delete or of the option re-insert after the scalar update succeeded
\* included, the poll's scalar fields, its option rows and its vote rows are the
\* same as before the call.
C27_FailedUpdateChangesNothing ==
    \A p \in Procs :
        LET r == req[p]
        IN  (Done(p) /\ r.op = "updatePoll" /\ ~r.result.success) =>
              /\ PollRows(polls, r.poll_id) = PollRows(r.pre.polls, r.poll_id)
              /\ OptionsOf(poll_options, r.poll_id) = OptionsOf(r.pre.poll_options, r.poll_id)
              /\ VotesOf(votes, r.poll_id) = VotesOf(r.pre.votes, r.poll_id)

\* ------------------------------------------------------------- C28
\* C28: for an authenticated caller on a poll with multiple votes disabled,
\* submitVote issues the vote insert only after the existing-votes lookup
\* completed without error and returned no rows; if the lookup itself errors, no
\* vote row is inserted.
C28_InsertOnlyAfterCleanLookup ==
    \A p \in Procs :
        LET r == req[p]
        IN  ( /\ r.op = "submitVote" /\ r.caller # None
              /\ "votes.insert" \in Range(r.calls)
              /\ ~r.poll[1].allow_multiple_votes )
            => /\ Issued(r, "votes.select")
               /\ "votes.select" \notin r.failed
               /\ ~HadVoted(r)

\* ------------------------------------------------------------- C29
\* C29: a submitVote request with an empty list of option ids never reports
\* success and never passes the option-membership check: every successful
\* submission adds at least one vote row.
C29_EmptyListRefused ==
    \A p \in Procs :
        LET r == req[p]
        IN  (r.op = "submitVote" /\ r.option_ids = << >>) =>
              /\ ~Issued(r, "votes.select") /\ ~Issued(r, "votes.insert")
              /\ Done(p) => ~r.result.success

\* ------------------------------------------------------------- C30
\* the polls created through createPoll: the seed rows have the ids below 3
CreatedThroughApplication(poll) == poll.id >= 3

\* every poll that stays keeps its status and its owner, and every poll that is
\* added is active and owned by the caller of the createPoll that added it
C30_FrameStep ==
    \A poll \in polls' :
        IF \E old \in polls : old.id = poll.id
        THEN \E old \in polls :
                old.id = poll.id /\ old.status = poll.status /\ old.created_by = poll.created_by
        ELSE /\ poll.status = "active"
             /\ \E p \in Procs :
                   /\ req[p].op = "createPoll" /\ req[p].pc = "cr_poll"
                   /\ req[p].caller = Some(poll.created_by)

\* C30: no application flow changes a poll's status or owner: createPoll leaves
\* status at its default 'active', and updatePoll, deletePoll and submitVote never
\* write the status or created_by column, so in every reachable state every
\* existing poll created through the application has status 'active' and its
\* original owner.
C30_StatusAndOwnerKept ==
    /\ [](\A poll \in polls : CreatedThroughApplication(poll) => poll.status = "active")
    /\ [][C30_FrameStep]_vars

\* poll 3 was created by u1 and then updated by u1 with every field set: it is
\* private with the new title, still active and still u1's
C30_CreatedThenUpdated ==
    \E poll \in polls :
        /\ poll.id = 3 /\ poll.title = "T2" /\ ~poll.is_public
        /\ poll.status = "active" /\ poll.created_by = "u1"
        /\ \E p \in Procs :
              req[p].op = "updatePoll" /\ req[p].poll_id = 3 /\ Done(p) /\ req[p].result.success

====
